---- MODULE Spec2Model ----
(***************************************************************************)
(* Overlay reconciliation and rendering engine of scrypted-osd-manager.     *)
(*                                                                         *)
(* The repository holds three revisions of OsdManagerMixin:                 *)
(*   "legacy"    src/src/cameraMixin.ts  event listeners, init() calls      *)
(*               refreshSettings() and then start() once more               *)
(*   "listeners" src/unnamed/part_000    event listeners per overlay plus   *)
(*               one setInterval per Template overlay                       *)
(*   "polling"   src/unnamed/part_001    one refresh timer that re-renders  *)
(*               every overlay on each tick                                 *)
(* The variable `variant` fixes the revision for a whole behaviour.         *)
(*                                                                         *)
(* One step of the model is one run-to-suspension of the JavaScript event   *)
(* loop: a handler runs from its entry (or from the await it was suspended  *)
(* at) to its next await on a remote call.                                  *)
(***************************************************************************)
EXTENDS Integers, Sequences, FiniteSets, TLC

VARIABLES
    variant,          \* which revision of the mixin runs
    killed,           \* this.killed
    initTimer,        \* the constructor's setTimeout(init, 2000) is still armed
    sleeping,         \* this.cameraDevice.sleeping
    reported,         \* overlay slots the camera reports (getVideoTextOverlays)
    overlays,         \* this.overlays (ids, kept in reported order)
    cfg,              \* stored overlay settings, per overlay id
    schema,           \* this.storageSettings: the dynamic settings last built
    passes,           \* refreshSettings() calls in flight, oldest trigger first
    listenersMap,     \* this.listenersMap (legacy, listeners)
    refreshInterval,  \* this.refreshInterval (polling)
    leaked,           \* live registrations/timers no field refers to any more, one
                      \* element each
    ticks,            \* polling: runs of funct suspended at the template await
    lastFace,         \* storageSettings.values.lastFace
    template,         \* plugin storage: parser string of template "t1"
    srcIfaces,        \* interfaces of source device "d1"
    changes,          \* settings writes and slot changes so far (bounded)
    latestTrigger,    \* history: what the pass of the latest trigger reads from the camera
    log,              \* renders attempted by the last step, in order
    templates,        \* plugin.storageSettings.values.templates: the template list
    dups,             \* duplicateFromDevice() calls suspended at the source's getVideoTextOverlays
    tplDevices,       \* plugin storage: the device ids template "t1" lists
    tplSensors,       \* plugin storage: the sensor ids selected for "d1" in template "t1"
    result            \* the result of the function applied last (function specifications)

vars == <<variant, killed, initTimer, sleeping, reported, overlays, cfg, schema,
          passes, listenersMap, refreshInterval, leaked, ticks,
          lastFace, template, srcIfaces, changes, latestTrigger, log,
          templates, dups, tplDevices, tplSensors, result>>

-----------------------------------------------------------------------------
(* Bounds of the model *)

MaxPasses == 2
MaxChanges == 1
MaxTicks == 1

-----------------------------------------------------------------------------
(* Vocabulary *)

Variants == {"legacy", "listeners", "polling"}

OverlayIds == {"o1", "o2"}

\* Object.entries order of the camera's answer
OverlayOrder == <<"o1", "o2">>

\* enum OverlayType
OverlayType == {"Disabled", "Text", "Device", "Template", "FaceDetection", "BatteryLeft"}

None == ""

\* JavaScript's undefined, for a value that is a string when defined
Undef == "<undefined>"

\* enum ListenerType (None: the variable was left undefined)
EventKinds == {"Face", "Humidity", "Temperature", "Lock", "Battery", "Entry", "Sensors", "Binary"}

\* ids known to sdk.systemManager; "gone" is an id no device has any more
SourceDevice == "d1"
CameraId == "cam"

\* the sensor the multi-sensor source exposes: device.sensors = {s1: {name: "s1", ...}}
SensorId == "s1"

\* the interface sets the source device "d1" may come with
SourceProfiles == {{"Thermometer"}, {"Lock", "EntrySensor"}, {"Sensors", "Thermometer"}}

\* payload codes an event (or a property read) may carry
Readings == {1, 2}

\* the templates the plugin's template list holds when the model starts
TemplateIds == {"t1"}

\* parser strings the plugin may hold for template "t1"
ParserStrings == {"", "T:{d1.x}"}

\* the default of the "Value Regex" setting
DefaultRegex == "${value} ${unit}"

-----------------------------------------------------------------------------
(* Strings *)

\* index of the first occurrence of pat in s at or after position i, 0 if none
RECURSIVE IndexFrom(_, _, _)
IndexFrom(s, pat, i) ==
    IF i + Len(pat) - 1 > Len(s) THEN 0
    ELSE IF SubSeq(s, i, i + Len(pat) - 1) = pat THEN i
    ELSE IndexFrom(s, pat, i + 1)

\* String.prototype.replace(pat, rep) with a string pattern: the first occurrence
Replace(s, pat, rep) ==
    LET i == IndexFrom(s, pat, 1)
    IN  IF i = 0 THEN s
        ELSE SubSeq(s, 1, i - 1) \o rep \o SubSeq(s, i + Len(pat), Len(s))

\* String.prototype.replaceAll(pat, rep): every occurrence, left to right,
\* never rescanning the replacement
RECURSIVE ReplaceAllFrom(_, _, _, _)
ReplaceAllFrom(s, pat, rep, from) ==
    LET i == IndexFrom(s, pat, from)
    IN  IF i = 0 \/ Len(pat) = 0 THEN s
        ELSE ReplaceAllFrom(SubSeq(s, 1, i - 1) \o rep \o SubSeq(s, i + Len(pat), Len(s)),
                            pat, rep, i + Len(rep))

\* a replaceAll that replaces the first occurrence only
ReplaceAll_First(s, pat, rep) ==
    LET i == IndexFrom(s, pat, 1)
    IN  IF i = 0 THEN s
        ELSE SubSeq(s, 1, i - 1) \o rep \o SubSeq(s, i + Len(pat), Len(s))

ReplaceAll(s, pat, rep) == ReplaceAllFrom(s, pat, rep, 1)

\* Math.pow(10, d)
RECURSIVE Pow10(_)
Pow10(d) == IF d = 0 THEN 1 ELSE 10 * Pow10(d - 1)

\* Numbers are fixed-point thousandths: 21500 is 21.5
Scale == 1000

\* the digits of a fraction given in thousandths, without trailing zeros
FracDigits(f) ==
    IF f % 100 = 0 THEN ToString(f \div 100)
    ELSE IF f % 10 = 0 THEN (IF f < 100 THEN "0" ELSE "") \o ToString(f \div 10)
    ELSE (IF f < 10 THEN "00" ELSE IF f < 100 THEN "0" ELSE "") \o ToString(f)

\* String(number) of a number that is not negative
NumBody(a) ==
    IF a % Scale = 0 THEN ToString(a \div Scale)
    ELSE ToString(a \div Scale) \o "." \o FracDigits(a % Scale)

\* String(number)
NumToString(v) == IF v < 0 THEN "-" \o NumBody(0 - v) ELSE NumBody(v)

\* a formatValue that rounds to the nearest multiple of 10^-maxDecimals
FormatValue_Nearest(v, maxDecimals) ==
    ((((v * Pow10(maxDecimals)) + (Scale \div 2)) \div Scale) * Scale) \div Pow10(maxDecimals)

\* a formatValue that drops the digits after maxDecimals, toward zero
FormatValue_Truncate(v, maxDecimals) ==
    IF v >= 0
    THEN (((v * Pow10(maxDecimals)) \div Scale) * Scale) \div Pow10(maxDecimals)
    ELSE 0 - (((((0 - v) * Pow10(maxDecimals)) \div Scale) * Scale) \div Pow10(maxDecimals))

\* formatValue: Math.floor(Number(value ?? 0) * factor) / factor
FormatValue(v, maxDecimals) ==
    LET factor == Pow10(maxDecimals)
    IN  (((v * factor) \div Scale) * Scale) \div factor

-----------------------------------------------------------------------------
(* The collaborators the engine reads: devices, plugin settings, overlay settings *)

\* a getDeviceById that finds a device for every id
Found_Any(id) == TRUE

\* sdk.systemManager.getDeviceById(id) finds a device
Found(id) == id \in {SourceDevice, CameraId}

\* realDevice.interfaces
Interfaces(id) ==
    IF id = SourceDevice THEN srcIfaces
    ELSE IF id = CameraId THEN {"Battery", "ObjectDetector", "VideoTextOverlays", "Sleep"}
    ELSE {}

\* A payload (an event's data, or a property read) is a number in thousandths
\* or a string; the field that does not apply is 0 or ""
Num(v) == [n |-> v, s |-> ""]
Str(x) == [n |-> 0, s |-> x]

\* what a payload code stands for, per interface
NumericOf(code) == IF code = 1 THEN 21500 ELSE 2999

\* the sensors "d1" exposes when it has the Sensors interface; a sensor's name
\* is its id: device.sensors = {s1: {name: "s1", ...}, h1: {name: "h1", ...}}
DeviceSensors == {SensorId, "h1"}

\* device.sensors[sensorId].value for a payload code, in thousandths
SensorValue(sensorId, code) == IF sensorId = SensorId THEN NumericOf(code) ELSE 55000
LockStateOf(code) == IF code = 1 THEN "Locked" ELSE "Unlocked"
FaceLabelOf(code) == IF code = 1 THEN "Bob" ELSE Undef

\* the data a device delivers on an interface for a payload code
Payload(iface, code) ==
    CASE iface = "Lock" -> Str(LockStateOf(code))
      [] iface \in {"EntrySensor", "BinarySensor"} -> Num(IF code = 1 THEN 1 ELSE 0)
      [] iface \in {"ObjectDetector", "ObjectDetection"} -> Str(FaceLabelOf(code))
      [] iface \in DeviceSensors -> Num(SensorValue(iface, code))
      [] OTHER -> Num(NumericOf(code))

\* plugin.storageSettings.values (the defaults of OsdManagerProvider.initStorage)
PluginTexts ==
    [lockText |-> "Locked", unlockText |-> "Unlocked", openText |-> "Open",
     closedText |-> "Closed", jammedText |-> "Jammed"]

\* the stored settings one overlay may have; a field a type does not use keeps its default
OverlayCfg(type, text, device, tmpl, sensorName) ==
    [type |-> type, text |-> text, device |-> device, template |-> tmpl,
     sensorName |-> sensorName, regex |-> DefaultRegex, maxDecimals |-> 1,
     maxCharacters |-> 0, unit |-> None, currentText |-> Undef]

\* the stored settings of an overlay of each type, as the model starts with them
CfgOf(type) ==
    OverlayCfg(type, "hi", SourceDevice, "t1", SensorId)

\* the devices the model starts from: the types of overlays "o1" and "o2"
Scenarios ==
    { <<"Device", "Text">>, <<"Template", "Disabled">>, <<"FaceDetection", "BatteryLeft">> }

\* a getOverlay that hands out the source device "d1" when the stored device
\* no longer exists
getOverlay_Fallback(o) ==
    [cfg[o] EXCEPT !.device = IF Found(cfg[o].device) THEN cfg[o].device ELSE SourceDevice]

\* getOverlay: the overlay's settings as stored now; values[deviceKey]?.id is
\* undefined when the stored device no longer exists
getOverlay(o) ==
    [cfg[o] EXCEPT !.device = IF Found(cfg[o].device) THEN cfg[o].device ELSE None]

\* JavaScript truthiness of a payload
Truthy(data) == data.n # 0 \/ data.s \notin {"", Undef}

\* getEntryText
getEntryText(data) ==
    IF data.s = "jammed" THEN PluginTexts.jammedText
    ELSE IF Truthy(data) THEN PluginTexts.openText ELSE PluginTexts.closedText

\* a getBinaryText that answers closedText whatever the state
getBinaryText_Closed(data) == PluginTexts.closedText

\* getBinaryText
getBinaryText(data) ==
    IF Truthy(data) THEN PluginTexts.openText ELSE PluginTexts.closedText

\* getLockText
getLockText(data) ==
    IF data.s = "jammed" THEN PluginTexts.jammedText
    ELSE IF data.s = "Locked" THEN PluginTexts.lockText
    ELSE PluginTexts.unlockText

\* the older parseOverlayData, Lock case: every state but Locked is shown as
\* unlockText
LegacyLockText(data) ==
    IF data.s = "Locked" THEN PluginTexts.lockText ELSE PluginTexts.unlockText

\* the older parseOverlayData, Entry case: the fixed text 'Jammed', openText
\* or closedText
LegacyEntryText(data) ==
    IF data.s = "jammed" THEN "Jammed"
    ELSE IF Truthy(data) THEN PluginTexts.openText ELSE PluginTexts.closedText

\* parseOverlayData, the switch on listenerType: the value, Undef when no case
\* assigns it
ParsedValue(listenerType, data, overlay) ==
    CASE listenerType = "Face" -> data.s
      [] listenerType \in {"Temperature", "Humidity", "Battery", "Sensors"} ->
            NumToString(FormatValue(data.n, overlay.maxDecimals))
      [] listenerType = "Lock" ->
            IF variant = "legacy" THEN LegacyLockText(data) ELSE getLockText(data)
      [] listenerType = "Entry" ->
            IF variant = "legacy" THEN LegacyEntryText(data) ELSE getEntryText(data)
      [] listenerType = "Binary" /\ variant # "legacy" -> getBinaryText(data)
      [] OTHER -> Undef

\* parseOverlayData, the switch on listenerType: the unit
ParsedUnit(listenerType, overlay) ==
    CASE listenerType = "Temperature" -> "C"
      [] listenerType \in {"Humidity", "Battery"} -> "%"
      [] listenerType = "Sensors" -> IF overlay.unit # None THEN overlay.unit ELSE "C"
      [] OTHER -> ""

\* a parseOverlayData without the branch that shows a Text overlay's text
ParsedText_NoStatic(listenerType, overlay, value, unit) ==
    IF value # Undef /\ overlay.regex # ""
    THEN Replace(Replace(overlay.regex, "${value}", value), "${unit}", unit)
    ELSE Undef

\* parseOverlayData after the switch: the text to show for a value and a unit
ParsedText(listenerType, overlay, value, unit) ==
    IF value # Undef /\ overlay.regex # ""
    THEN Replace(Replace(overlay.regex, "${value}", value), "${unit}", unit)
    ELSE IF listenerType \notin EventKinds /\ overlay.type = "Text" THEN overlay.text
    ELSE Undef

\* the result of parseOverlayData for a value; threw: reading
\* realDevice.temperatureUnit of a device that is not found raised
Parsed(listenerType, overlay, value) ==
    IF listenerType = "Temperature" /\ overlay.device = None
    THEN [text |-> Undef, value |-> Undef, threw |-> TRUE]
    ELSE [text |-> ParsedText(listenerType, overlay, value, ParsedUnit(listenerType, overlay)),
          value |-> value, threw |-> FALSE]

\* parseOverlayData: [text, value, threw]; text and value are Undef when the
\* code leaves them undefined
parseOverlayData(listenerType, data, overlay) ==
    Parsed(listenerType, overlay, ParsedValue(listenerType, data, overlay))

\* a limitText that never cuts
limitText_Whole(o, text) == text

\* a limitText that leaves two characters of room for the ellipsis
limitText_RoomOfTwo(o, text) ==
    IF cfg[o].maxCharacters = 0 \/ Len(text) <= cfg[o].maxCharacters THEN text
    ELSE SubSeq(text, 1, cfg[o].maxCharacters - 2) \o "..."

\* limitText (polling revision)
limitText(o, text) ==
    LET maxCharacters == getOverlay(o).maxCharacters
    IN  IF maxCharacters = 0 THEN text
        ELSE IF Len(text) <= maxCharacters THEN text
        ELSE SubSeq(text, 1, maxCharacters - 3) \o "..."

-----------------------------------------------------------------------------
(* Rendering *)

\* One attempted render, as the log keeps it.  out: "set" a set-text write was
\* issued, "clear" a {text: false} write was issued, "none" no write, "asleep"
\* returned because the camera sleeps, "error" the render threw and was caught.
LogEntry(o, path, lt, out, text) ==
    [o |-> o, path |-> path, lt |-> lt, out |-> out, text |-> text]

\* an updateOverlayData without the return for a Face event that has no label
Rendered_NoFaceReturn(o, listenerType, path, lf, overlay, parsed) ==
    LET out == IF sleeping THEN "asleep"
               ELSE IF parsed.threw THEN "error"
               ELSE IF parsed.text \notin {Undef, ""} THEN "set"
               ELSE IF overlay.type = "Disabled" THEN "clear"
               ELSE "none"
    IN  [entry |-> LogEntry(o, path, listenerType, out,
                            IF out # "set" THEN ""
                            ELSE IF variant = "polling" THEN limitText(o, parsed.text)
                            ELSE parsed.text),
         lastFace |-> IF variant # "legacy" /\ listenerType = "Face"
                         /\ out \in {"set", "clear", "none"}
                      THEN parsed.value ELSE lf]

\* an updateOverlayData that always takes the sleeping return
Rendered_Asleep(o, listenerType, path, lf, overlay, parsed) ==
    [entry |-> LogEntry(o, path, listenerType, "asleep", ""), lastFace |-> lf]

\* updateOverlayData after parseOverlayData, up to its await of the sink call
Rendered(o, listenerType, path, lf, overlay, parsed) ==
    LET faceReturn == variant # "legacy" /\ parsed.value = Undef /\ listenerType = "Face"
        out == IF sleeping THEN "asleep"
               ELSE IF parsed.threw THEN "error"
               ELSE IF faceReturn THEN "none"
               ELSE IF parsed.text \notin {Undef, ""} THEN "set"
               ELSE IF overlay.type = "Disabled" THEN "clear"
               ELSE "none"
        putFace == variant # "legacy" /\ listenerType = "Face" /\ out \in {"set", "clear", "none"}
                   /\ ~faceReturn
    IN  [entry |-> LogEntry(o, path, listenerType, out,
                            IF out # "set" THEN ""
                            ELSE IF variant = "polling" THEN limitText(o, parsed.text)
                            ELSE parsed.text),
         lastFace |-> IF putFace THEN parsed.value ELSE lf]

\* updateOverlayData: [entry, lastFace]
updateOverlayData(o, listenerType, data, path, lf) ==
    Rendered(o, listenerType, path, lf, getOverlay(o),
             parseOverlayData(listenerType, data, getOverlay(o)))

\* getStrippedNativeId of the source device (its nativeId is "x")
StrippedNativeId == "x"

\* applyDeviceTemplate, the device without the Sensors interface: String(value)
\* of the one measurement the device has, "undefined" when it has none
TemplateValue(device, rd) ==
    LET ifs == Interfaces(device)
    IN  IF "Thermometer" \in ifs
            THEN NumToString(FormatValue(Payload("Thermometer", rd).n, 1))
        ELSE IF "HumiditySensor" \in ifs
            THEN NumToString(FormatValue(Payload("HumiditySensor", rd).n, 1))
        ELSE IF "EntrySensor" \in ifs
            THEN getEntryText(Payload("EntrySensor", rd))
        ELSE IF "Lock" \in ifs
            THEN getLockText(Payload("Lock", rd))
        ELSE IF "BinarySensor" \in ifs
            THEN IF variant = "polling"
                 THEN getBinaryText(Str(Undef))   \* reads device.lockState
                 ELSE IF Truthy(Payload("BinarySensor", rd))
                      THEN "On" ELSE "Off"
        ELSE "undefined"

\* applyDeviceTemplate, a selected sensor: String(value) of
\* device.sensors[sensorId], "undefined" when the device has no such sensor
SensorText(sensorId, rd) ==
    IF sensorId \in DeviceSensors
    THEN NumToString(FormatValue(SensorValue(sensorId, rd), 1))
    ELSE "undefined"

\* applyDeviceTemplate, the device with the Sensors interface: the loop over
\* the selected sensor ids
RECURSIVE applySensors(_, _, _, _)
applySensors(templateString, device, sensorIds, rd) ==
    IF sensorIds = <<>> THEN templateString
    ELSE applySensors(ReplaceAll(templateString,
                                 "{" \o device \o "." \o Head(sensorIds) \o "}",
                                 SensorText(Head(sensorIds), rd)),
                      device, Tail(sensorIds), rd)

\* applyDeviceTemplate
applyDeviceTemplate(templateString, device, rd) ==
    IF "Sensors" \in Interfaces(device)
    THEN applySensors(templateString, device, tplSensors, rd)
    ELSE ReplaceAll(templateString, "{" \o device \o "." \o StrippedNativeId \o "}",
                    TemplateValue(device, rd))

\* the devices template "t1" lists (template:t1:devices) when the model starts
TemplateDevices == <<SourceDevice>>

\* updateOverlayDataFromTemplate, the loop over the template's devices: a
\* device that is not found is skipped
RECURSIVE applyDevices(_, _, _)
applyDevices(parserString, deviceIds, rd) ==
    IF deviceIds = <<>> THEN parserString
    ELSE applyDevices(IF Found(Head(deviceIds))
                      THEN applyDeviceTemplate(parserString, Head(deviceIds), rd)
                      ELSE parserString,
                      Tail(deviceIds), rd)

\* the text updateOverlayDataFromTemplate hands to the sink
TemplateText(o, parserString) ==
    IF variant = "polling" THEN limitText(o, parserString) ELSE parserString

\* updateOverlayDataFromTemplate up to its await of the sink call: the write
\* is issued whatever the camera's state and whatever the string
updateOverlayDataFromTemplate(o, rd) ==
    LogEntry(o, "template", "Interval", "set",
             TemplateText(o, applyDevices(template, tplDevices, rd)))

-----------------------------------------------------------------------------
(* Overlay resolver: the head of start()'s loop body *)

NoPlan == [listenerType |-> None, iface |-> None, device |-> None]

Plan(lt, iface, device) == [listenerType |-> lt, iface |-> iface, device |-> device]

\* the sensor id found for overlay.sensorName (overlay.sensorId is never stored)
SensorIdOf(sensorName) == IF sensorName \in DeviceSensors THEN sensorName ELSE None

\* a resolver that tests EntrySensor before Lock
Resolve_EntryFirst(overlay) ==
    LET ifs == Interfaces(overlay.device)
        dev == overlay.device
    IN  IF overlay.type = "Device" THEN
            IF ~Found(dev) THEN NoPlan
            ELSE IF variant # "legacy" /\ "Sensors" \in ifs THEN
                IF overlay.sensorName # None
                THEN Plan("Sensors", SensorIdOf(overlay.sensorName), dev)
                ELSE NoPlan
            ELSE IF "Thermometer" \in ifs THEN Plan("Temperature", "Thermometer", dev)
            ELSE IF "HumiditySensor" \in ifs THEN Plan("Humidity", "HumiditySensor", dev)
            ELSE IF "EntrySensor" \in ifs THEN Plan("Entry", "EntrySensor", dev)
            ELSE IF "Lock" \in ifs THEN Plan("Lock", "Lock", dev)
            ELSE IF variant = "polling" /\ "BinarySensor" \in ifs
                THEN Plan("Binary", "BinarySensor", dev)
            ELSE NoPlan
        ELSE IF overlay.type = "FaceDetection" THEN
            Plan("Face", IF variant = "legacy" THEN "ObjectDetection" ELSE "ObjectDetector",
                 CameraId)
        ELSE IF overlay.type = "BatteryLeft" THEN Plan("Battery", "Battery", CameraId)
        ELSE NoPlan

\* listenerType, listenInterface and deviceId chosen for an overlay
Resolve(overlay) ==
    LET ifs == Interfaces(overlay.device)
        dev == overlay.device
    IN  IF overlay.type = "Device" THEN
            IF ~Found(dev) THEN NoPlan
            ELSE IF variant # "legacy" /\ "Sensors" \in ifs THEN
                IF overlay.sensorName # None
                THEN Plan("Sensors", SensorIdOf(overlay.sensorName), dev)
                ELSE NoPlan
            ELSE IF "Thermometer" \in ifs THEN Plan("Temperature", "Thermometer", dev)
            ELSE IF "HumiditySensor" \in ifs THEN Plan("Humidity", "HumiditySensor", dev)
            ELSE IF "Lock" \in ifs THEN Plan("Lock", "Lock", dev)
            ELSE IF "EntrySensor" \in ifs THEN Plan("Entry", "EntrySensor", dev)
            ELSE IF variant = "polling" /\ "BinarySensor" \in ifs
                THEN Plan("Binary", "BinarySensor", dev)
            ELSE NoPlan
        ELSE IF overlay.type = "FaceDetection" THEN
            Plan("Face", IF variant = "legacy" THEN "ObjectDetection" ELSE "ObjectDetector",
                 CameraId)
        ELSE IF overlay.type = "BatteryLeft" THEN Plan("Battery", "Battery", CameraId)
        ELSE NoPlan

\* the value start() hands to update() right after it has resolved a plan
CurrentValue(plan, lf, rd) ==
    IF plan.iface \in {"ObjectDetector", "ObjectDetection"}
    THEN Str(IF variant # "legacy" /\ lf \notin {"", Undef} THEN lf ELSE "-")
    ELSE Payload(plan.iface, rd)

-----------------------------------------------------------------------------
(* Subscriptions *)

\* a listenersMap entry; kind "none": no entry was ever stored for the id
NoEntry ==
    [kind |-> "none", listenerType |-> None, device |-> None, iface |-> None, live |-> FALSE]

\* {listenerType, device, listener: realDevice.listen(...)}
ListenerEntry(plan) ==
    [kind |-> "listener", listenerType |-> plan.listenerType, device |-> plan.device,
     iface |-> plan.iface, live |-> TRUE]

\* an Interval entry whose timer was never started
IntervalEntry_Dead ==
    [kind |-> "interval", listenerType |-> "Interval", device |-> None, iface |-> None,
     live |-> FALSE]

\* {listenerType: Interval, interval: setInterval(...)}
IntervalEntry ==
    [kind |-> "interval", listenerType |-> "Interval", device |-> None, iface |-> None,
     live |-> TRUE]

\* a cancellation that leaves the registration live
CancelEntry_Keeps(e) == e

\* listener.removeListener() / clearInterval(interval) on one entry
CancelEntry(e) == [e EXCEPT !.live = FALSE]

\* a registration or timer that is live, as the event source or the clock sees it
Reg(o, e) == [o |-> o, kind |-> e.kind, listenerType |-> e.listenerType,
              device |-> e.device, iface |-> e.iface]

\* live registrations and timers of the device, referenced or not
Live == {Reg(o, listenersMap[o]) : o \in {x \in OverlayIds : listenersMap[x].live}}
            \cup {leaked[k] : k \in DOMAIN leaked}
            \cup (IF refreshInterval = "live" THEN {Reg(None, IntervalEntry)} ELSE {})

\* a removeListeners that cancels nothing
removeListenersMap_Keeps(lm) == lm

\* removeListeners on the map
removeListenersMap(lm) == [o \in OverlayIds |-> CancelEntry(lm[o])]

\* removeListeners on the refresh timer (polling)
removeListenersTimer(handle) == IF handle = "live" THEN "cleared" ELSE handle

\* storing a new entry over the one the map holds: a handle still live is lost
Overwritten(o, e) == IF e.live THEN <<Reg(o, e)>> ELSE <<>>

-----------------------------------------------------------------------------
(* start() *)

\* this.overlays in the order the camera reported them
OrderedIds(ids) == SelectSeq(OverlayOrder, LAMBDA o : o \in ids)

\* the state start() threads through its loop: listenersMap, lost handles,
\* lastFace, renders so far
Acc(lm, lk, lf, lg) == [lm |-> lm, lk |-> lk, lf |-> lf, lg |-> lg]

\* the data start() hands to updateOverlayData for an overlay without a
\* listener type: overlay.text for a Text overlay, '' for a Disabled one
StaticData(overlay) == IF overlay.type = "Text" THEN Str(overlay.text) ELSE Str("")

\* one iteration of start()'s loop once the overlay is resolved: the entry of
\* the id is cancelled, then the branch the plan and the type select runs
StartResolved(acc, o, overlay, plan, rd) ==
    LET old == CancelEntry(acc.lm[o])
        subscribes == plan.listenerType # None /\ plan.iface # None /\ plan.device # None
        static == plan.listenerType = None /\ overlay.type \in {"Text", "Disabled"}
        timed == /\ plan.listenerType = None
                 /\ variant = "listeners"
                 /\ overlay.type = "Template"
                 /\ overlay.template # None
        u == updateOverlayData(o, plan.listenerType,
                               IF subscribes THEN CurrentValue(plan, acc.lf, rd)
                               ELSE StaticData(overlay),
                               IF subscribes THEN "subscribe" ELSE "static", acc.lf)
    IN  IF subscribes THEN
            Acc([acc.lm EXCEPT ![o] = ListenerEntry(plan)],
                acc.lk \o Overwritten(o, old), u.lastFace, Append(acc.lg, u.entry))
        ELSE IF static THEN
            Acc([acc.lm EXCEPT ![o] = old], acc.lk, acc.lf, Append(acc.lg, u.entry))
        ELSE IF timed THEN
            Acc([acc.lm EXCEPT ![o] = IntervalEntry],
                acc.lk \o Overwritten(o, old), acc.lf, acc.lg)
        ELSE Acc([acc.lm EXCEPT ![o] = old], acc.lk, acc.lf, acc.lg)

\* one iteration of start()'s loop (legacy, listeners)
startOverlay(acc, o, rd) ==
    StartResolved(acc, o, getOverlay(o), Resolve(getOverlay(o)), rd)

\* start() of the legacy and listeners revisions: the whole loop, which never awaits
RECURSIVE start(_, _, _)
start(ids, acc, rd) ==
    IF ids = <<>> THEN acc ELSE start(Tail(ids), startOverlay(acc, Head(ids), rd), rd)

\* one iteration of funct's loop that does not await: [lf, lg]
PollResolved(o, overlay, plan, lf, lg, rd) ==
    LET polls == plan.listenerType # None /\ plan.iface # None /\ plan.device # None
        static == plan.listenerType = None /\ overlay.type \in {"Text", "Disabled"}
        u == updateOverlayData(o, plan.listenerType,
                               IF polls THEN CurrentValue(plan, lf, rd)
                               ELSE StaticData(overlay),
                               IF polls THEN "poll" ELSE "static", lf)
    IN  IF polls \/ static THEN [lf |-> u.lastFace, lg |-> Append(lg, u.entry)]
        ELSE [lf |-> lf, lg |-> lg]

pollOverlay(o, lf, lg, rd) ==
    PollResolved(o, getOverlay(o), Resolve(getOverlay(o)), lf, lg, rd)

\* the iteration for overlay o awaits updateOverlayDataFromTemplate
AwaitsTemplate(o) ==
    /\ Resolve(getOverlay(o)).listenerType = None
    /\ getOverlay(o).type = "Template"
    /\ getOverlay(o).template # None

\* funct, the body of the polling revision's timer: it runs the overlays in
\* order and suspends at the await of a template render.
\* [lf, lg, rest, suspended]: rest are the overlays still to do
RECURSIVE funct(_, _, _, _)
funct(ids, lf, lg, rd) ==
    IF ids = <<>> THEN [lf |-> lf, lg |-> lg, rest |-> <<>>, suspended |-> FALSE]
    ELSE IF AwaitsTemplate(Head(ids)) THEN
        [lf |-> lf, lg |-> Append(lg, updateOverlayDataFromTemplate(Head(ids), rd)),
         rest |-> Tail(ids), suspended |-> TRUE]
    ELSE funct(Tail(ids), pollOverlay(Head(ids), lf, lg, rd).lf,
               pollOverlay(Head(ids), lf, lg, rd).lg, rd)

\* start() of the polling revision: this.refreshInterval = setInterval(funct, ...);
\* a handle still live that the field held is lost
startTimer(handle) ==
    [handle |-> "live",
     lost |-> IF handle = "live" THEN <<Reg(None, IntervalEntry)>> ELSE <<>>]

-----------------------------------------------------------------------------
(* refreshSettings() *)

\* no function has been applied
\* arg: the arguments, val: the value returned (one element), for the functions
\* that return a plain value
NoResult ==
    [kind |-> "none", rd |-> 0, plan |-> NoPlan, entry |-> LogEntry("", "", "", "", ""),
     arg |-> <<>>, val |-> <<>>]

EmptySchema == [o \in {} |-> None]

\* getOverlaySettings: the dynamic settings of the overlays in ids, whose
\* fields depend on each overlay's stored type
getOverlaySettings(ids, c) == [o \in ids |-> c[o].type]

\* A refreshSettings() call in flight.  pc "overlays": suspended in
\* getOverlayData at the await of getVideoTextOverlays, resp is the camera's
\* answer on its way; pc "convert": suspended at the await of
\* convertSettingsToStorageSettings, built are the settings it was handed.
Pass(pc, resp, built, init) == [pc |-> pc, resp |-> resp, built |-> built, init |-> init]

\* a refreshSettings() that never resumes from its first await
refreshSettingsEntry_Stuck(c, init) == Pass("stuck", {}, EmptySchema, init)

\* a refreshSettings() that asks the camera for its overlays also when it sleeps
refreshSettingsEntry_Asks(c, init) == Pass("overlays", reported, EmptySchema, init)

\* refreshSettings() from its entry to its first suspension, with the stored
\* settings c: a sleeping camera is not asked for its overlays
refreshSettingsEntry(c, init) ==
    IF sleeping
    THEN Pass("convert", {}, getOverlaySettings(overlays, c), init)
    ELSE Pass("overlays", reported, EmptySchema, init)

\* what the pass a trigger starts now reads from the camera (history)
TriggerRead ==
    IF sleeping THEN [read |-> FALSE, ids |-> {}] ELSE [read |-> TRUE, ids |-> reported]

RemoveAt(seq, i) == SubSeq(seq, 1, i - 1) \o SubSeq(seq, i + 1, Len(seq))

-----------------------------------------------------------------------------
(* Initial state: the mixin has just been constructed *)

Init ==
    /\ variant \in Variants
    /\ killed = FALSE
    /\ initTimer = TRUE
    /\ sleeping = FALSE
    /\ reported = OverlayIds
    /\ overlays = {}
    /\ \E sc \in Scenarios : cfg = [o \in OverlayIds |-> CfgOf(IF o = "o1" THEN sc[1] ELSE sc[2])]
    /\ schema = EmptySchema
    /\ passes = <<>>
    /\ listenersMap = [o \in OverlayIds |-> NoEntry]
    /\ refreshInterval = "none"
    /\ leaked = <<>>
    /\ ticks = <<>>
    /\ lastFace = ""
    /\ template \in ParserStrings
    /\ srcIfaces \in SourceProfiles
    /\ template = "" => cfg["o1"].type = "Template"
    /\ srcIfaces # {"Thermometer"} => cfg["o1"].type = "Device"
    /\ changes = 0
    /\ latestTrigger = [read |-> FALSE, ids |-> {}]
    /\ log = <<>>
    /\ templates = TemplateIds
    /\ dups = <<>>
    /\ tplDevices = TemplateDevices
    /\ tplSensors = <<SensorId>>
    /\ result = NoResult

-----------------------------------------------------------------------------
(* Actions *)

\* an init timer whose callback does not look at this.killed
InitTimerFires_Unguarded ==
    /\ initTimer
    /\ initTimer' = FALSE
    /\ passes' = Append(passes, refreshSettingsEntry(cfg, TRUE))
    /\ latestTrigger' = TriggerRead
    /\ log' = <<>>
    /\ UNCHANGED <<templates, dups, tplDevices, tplSensors, result, variant, killed, sleeping, reported, overlays, cfg, schema, listenersMap,
                   refreshInterval, leaked, ticks, lastFace, template, srcIfaces,
                   changes>>

\* constructor: setTimeout(async () => !this.killed && await this.init(), 2000)
InitTimerFires ==
    /\ initTimer
    /\ initTimer' = FALSE
    /\ passes' = IF killed THEN passes ELSE Append(passes, refreshSettingsEntry(cfg, TRUE))
    /\ latestTrigger' = IF killed THEN latestTrigger ELSE TriggerRead
    /\ log' = <<>>
    /\ UNCHANGED <<templates, dups, tplDevices, tplSensors, result, variant, killed, sleeping, reported, overlays, cfg, schema, listenersMap,
                   refreshInterval, leaked, ticks, lastFace, template, srcIfaces,
                   changes>>

\* release()
Release ==
    /\ ~killed
    /\ killed' = TRUE
    /\ listenersMap' = removeListenersMap(listenersMap)
    /\ refreshInterval' = removeListenersTimer(refreshInterval)
    /\ log' = <<>>
    /\ UNCHANGED <<templates, dups, tplDevices, tplSensors, result, variant, initTimer, sleeping, reported, overlays, cfg, schema, passes,
                   leaked, ticks, lastFace, template, srcIfaces, changes, latestTrigger>>

\* the "Get data from camera" button: onPut: async () => await this.refreshSettings()
RefreshButton ==
    /\ ~killed
    /\ ~initTimer
    /\ variant # "legacy"
    /\ Len(passes) < MaxPasses
    /\ passes' = Append(passes, refreshSettingsEntry(cfg, FALSE))
    /\ latestTrigger' = TriggerRead
    /\ log' = <<>>
    /\ UNCHANGED <<templates, dups, tplDevices, tplSensors, result, variant, killed, initTimer, sleeping, reported, overlays, cfg, schema,
                   listenersMap, refreshInterval, leaked, ticks, lastFace, template,
                   srcIfaces, changes>>

\* the values a settings field may be written with
FieldValues(field) ==
    CASE field = "type" -> OverlayType
      [] field = "text" -> {"", "hi"}
      [] field = "device" -> {SourceDevice, "gone"}
      [] field = "template" -> {None, "t1"}

\* the overlay fields the settings built for a type show (each with onPut: onSettingUpdated)
ShownFields(type) ==
    CASE type = "Text" -> {"type", "text"}
      [] type = "Device" -> {"type", "device"}
      [] type = "Template" -> {"type", "template"}
      [] OTHER -> {"type"}

\* the stored settings after a write of one field
WithField(c, o, field, v) ==
    CASE field = "type" -> [c EXCEPT ![o].type = v]
      [] field = "text" -> [c EXCEPT ![o].text = v]
      [] field = "device" -> [c EXCEPT ![o].device = v]
      [] field = "template" -> [c EXCEPT ![o].template = v]

\* putSetting of an overlay field of the current settings: the value is
\* stored, then the field's onPut hook (refreshSettings) is called
PutSetting(o, field, v) ==
    /\ ~killed
    /\ changes < MaxChanges
    /\ Len(passes) < MaxPasses
    /\ o \in DOMAIN schema
    /\ field \in ShownFields(schema[o])
    /\ v \in FieldValues(field)
    /\ WithField(cfg, o, field, v) # cfg
    /\ cfg' = WithField(cfg, o, field, v)
    /\ changes' = changes + 1
    /\ passes' = Append(passes, refreshSettingsEntry(cfg', FALSE))
    /\ latestTrigger' = TriggerRead
    /\ log' = <<>>
    /\ UNCHANGED <<templates, dups, tplDevices, tplSensors, result, variant, killed, initTimer, sleeping, reported, overlays, schema,
                   listenersMap, refreshInterval, leaked, ticks, lastFace, template,
                   srcIfaces>>

\* getOverlayData, the loop over this.overlays: the stored currentText of each
\* overlay is read and put back under the same key
StoreCurrentText(c, ids) ==
    [o \in OverlayIds |->
        IF o \in ids THEN [c[o] EXCEPT !.currentText = getOverlay(o).currentText]
        ELSE c[o]]

\* getOverlayData resumes with the camera's answer; refreshSettings goes on to
\* getOverlaySettings and suspends at convertSettingsToStorageSettings
OverlaysResponse(i) ==
    /\ i \in DOMAIN passes
    /\ passes[i].pc = "overlays"
    /\ overlays' = passes[i].resp
    /\ cfg' = StoreCurrentText(cfg, passes[i].resp)
    /\ passes' = [passes EXCEPT ![i] =
                    Pass("convert", {}, getOverlaySettings(overlays', cfg), passes[i].init)]
    /\ log' = <<>>
    /\ UNCHANGED <<templates, dups, tplDevices, tplSensors, result, variant, killed, initTimer, sleeping, reported, schema, listenersMap,
                   refreshInterval, leaked, ticks, lastFace, template, srcIfaces,
                   changes, latestTrigger>>

\* refreshSettings resumes from convertSettingsToStorageSettings:
\* this.storageSettings = ...; this.removeListeners(); this.start()
\* (legacy init() then calls start() once more)
SettingsConverted(i, rd) ==
    /\ i \in DOMAIN passes
    /\ passes[i].pc = "convert"
    /\ schema' = passes[i].built
    /\ passes' = RemoveAt(passes, i)
    /\ IF variant = "polling"
       THEN LET t == startTimer(removeListenersTimer(refreshInterval))
            IN  /\ refreshInterval' = t.handle
                /\ leaked' = leaked \o t.lost
                /\ log' = <<>>
                /\ UNCHANGED <<listenersMap, lastFace>>
       ELSE \E a1 \in {start(OrderedIds(overlays),
                               Acc(removeListenersMap(listenersMap), leaked, lastFace, <<>>),
                               rd)} :
            \E a2 \in {IF variant = "legacy" /\ passes[i].init
                        THEN start(OrderedIds(overlays), a1, rd) ELSE a1} :
                /\ listenersMap' = a2.lm
                /\ leaked' = a2.lk
                /\ lastFace' = a2.lf
                /\ log' = a2.lg
                /\ UNCHANGED refreshInterval
    /\ UNCHANGED <<templates, dups, tplDevices, tplSensors, result, variant, killed, initTimer, sleeping, reported, overlays, cfg, ticks,
                   template, srcIfaces, changes, latestTrigger>>

\* the devices that emit events, and the interfaces events are emitted on
EventDevices == {SourceDevice, CameraId}
EventInterfaces ==
    {"Thermometer", "HumiditySensor", "Lock", "EntrySensor", "BinarySensor", "Battery",
     "ObjectDetector", SensorId, "h1"}

\* the event interfaces a device emits on
Emits(dev) ==
    IF dev = CameraId THEN {"Battery", "ObjectDetector"}
    ELSE IF "Sensors" \in srcIfaces THEN (srcIfaces \ {"Sensors"}) \cup DeviceSensors
    ELSE srcIfaces

\* the live registrations an event of (dev, iface) is delivered to
Listening(dev, iface) ==
    {r \in Live : r.kind = "listener" /\ r.device = dev /\ r.iface = iface}

\* an event delivery in which no callback renders
deliver_Drops(regs, data, lf, lg) == [lf |-> lf, lg |-> lg]

\* the callbacks of the registrations in regs, run one after the other
RECURSIVE deliver(_, _, _, _)
deliver(regs, data, lf, lg) ==
    IF regs = {} THEN [lf |-> lf, lg |-> lg]
    ELSE LET r == CHOOSE x \in regs : \A y \in regs : x.o = "o1" \/ y.o # "o1"
             u == updateOverlayData(r.o, r.listenerType, data, "event", lf)
         IN  deliver(regs \ {r}, data, u.lastFace, Append(lg, u.entry))

\* a device's property changes and it emits the event; every listener
\* registered on (dev, iface) runs update(data).  An event nobody listens to
\* runs no code of the mixin and is left out.
DeviceEvent(dev, iface, code) ==
    /\ iface \in Emits(dev)
    /\ Listening(dev, iface) # {}
    /\ \E d \in {deliver(Listening(dev, iface), Payload(iface, code), lastFace, <<>>)} :
           /\ lastFace' = d.lf
           /\ log' = d.lg
    /\ UNCHANGED <<templates, dups, tplDevices, tplSensors, result, variant, killed, initTimer, sleeping, reported, overlays, cfg, schema,
                   passes, listenersMap, refreshInterval, leaked, ticks, template, srcIfaces,
                   changes, latestTrigger>>

\* listeners: the setInterval callback of a Template overlay fires
TemplateTick(o, rd) ==
    /\ \E r \in Live : r.kind = "interval" /\ r.o = o
    /\ log' = <<updateOverlayDataFromTemplate(o, rd)>>
    /\ UNCHANGED <<templates, dups, tplDevices, tplSensors, result, variant, killed, initTimer, sleeping, reported, overlays, cfg, schema,
                   passes, listenersMap, refreshInterval, leaked, ticks, lastFace,
                   template, srcIfaces, changes, latestTrigger>>

\* polling: the refresh timer fires and funct runs to its end or to its first
\* template await
RefreshTick(rd) ==
    /\ \E r \in Live : r.kind = "interval" /\ r.o = None
    /\ Len(ticks) < MaxTicks
    /\ \E f \in {funct(OrderedIds(overlays), lastFace, <<>>, rd)} :
           /\ lastFace' = f.lf
           /\ log' = f.lg
           /\ ticks' = IF f.suspended THEN Append(ticks, f.rest) ELSE ticks
    /\ UNCHANGED <<templates, dups, tplDevices, tplSensors, result, variant, killed, initTimer, sleeping, reported, overlays, cfg, schema,
                   passes, listenersMap, refreshInterval, leaked, template,
                   srcIfaces, changes, latestTrigger>>

\* polling: the sink call of a template render returns and funct goes on with
\* the overlays that are left
TickResume(i, rd) ==
    /\ i \in DOMAIN ticks
    /\ \E f \in {funct(ticks[i], lastFace, <<>>, rd)} :
           /\ lastFace' = f.lf
           /\ log' = f.lg
           /\ ticks' = IF f.suspended THEN [ticks EXCEPT ![i] = f.rest]
                       ELSE RemoveAt(ticks, i)
    /\ UNCHANGED <<templates, dups, tplDevices, tplSensors, result, variant, killed, initTimer, sleeping, reported, overlays, cfg, schema,
                   passes, listenersMap, refreshInterval, leaked, template,
                   srcIfaces, changes, latestTrigger>>

\* polling: the sink call of a template render rejects.  funct awaits it
\* outside any try, so the run of funct ends there and the overlays that are
\* left are not reached.  (A sink call of updateOverlayData that rejects is
\* caught inside updateOverlayData, which no caller awaits: it changes nothing.)
TickFails(i) ==
    /\ i \in DOMAIN ticks
    /\ ticks' = RemoveAt(ticks, i)
    /\ log' = <<>>
    /\ UNCHANGED <<templates, dups, tplDevices, tplSensors, result, variant, killed, initTimer, sleeping,
                   reported, overlays, cfg, schema, passes, listenersMap, refreshInterval,
                   leaked, lastFace, template, srcIfaces, changes, latestTrigger>>

\* the camera falls asleep or wakes up
SleepToggle ==
    /\ sleeping' = ~sleeping
    /\ log' = <<>>
    /\ UNCHANGED <<templates, dups, tplDevices, tplSensors, result, variant, killed, initTimer, reported, overlays, cfg, schema, passes,
                   listenersMap, refreshInterval, leaked, ticks, lastFace, template,
                   srcIfaces, changes, latestTrigger>>

\* the camera starts or stops reporting an overlay slot
SlotsChange(o) ==
    /\ o # "o1"
    /\ changes < MaxChanges
    /\ changes' = changes + 1
    /\ reported' = IF o \in reported THEN reported \ {o} ELSE reported \cup {o}
    /\ log' = <<>>
    /\ UNCHANGED <<templates, dups, tplDevices, tplSensors, result, variant, killed, initTimer, sleeping, overlays, cfg, schema, passes,
                   listenersMap, refreshInterval, leaked, ticks, lastFace, template,
                   srcIfaces, latestTrigger>>

Next ==
    \/ InitTimerFires
    \/ Release
    \/ RefreshButton
    \/ \E o \in OverlayIds, field \in {"type", "text", "device", "template"},
          v \in OverlayType \cup {"", "hi", SourceDevice, "gone", "t1"} : PutSetting(o, field, v)
    \/ \E i \in 1..MaxPasses : OverlaysResponse(i)
    \/ \E i \in 1..MaxPasses, rd \in Readings : SettingsConverted(i, rd)
    \/ \E dev \in EventDevices, iface \in EventInterfaces, code \in Readings :
          DeviceEvent(dev, iface, code)
    \/ \E o \in OverlayIds, rd \in Readings : TemplateTick(o, rd)
    \/ \E rd \in Readings : RefreshTick(rd)
    \/ \E i \in 1..MaxTicks, rd \in Readings : TickResume(i, rd)
    \/ \E i \in 1..MaxTicks : TickFails(i)
    \/ SleepToggle
    \/ \E o \in OverlayIds : SlotsChange(o)

Spec == Init /\ [][Next]_vars

\* The calls a refreshSettings() call awaits return: the camera answers
\* getVideoTextOverlays (or the call fails and getOverlayData catches it), and
\* convertSettingsToStorageSettings resolves.
\* PassResumes is what OverlaysResponse(i) and SettingsConverted(i, rd) do to
\* passes, and no other action of Next does it.
PassResumes ==
    \E i \in DOMAIN passes :
        /\ passes[i].pc \in {"overlays", "convert"}
        /\ passes' = IF passes[i].pc = "overlays"
                     THEN [passes EXCEPT ![i] =
                             Pass("convert", {}, getOverlaySettings(passes[i].resp, cfg),
                                  passes[i].init)]
                     ELSE RemoveAt(passes, i)

SpecFair == Spec /\ WF_passes(PassResumes)

-----------------------------------------------------------------------------
(* The resolver on its own: every capability set of the source device, every
   sensor selection, a source device that exists or not *)

\* the capabilities the resolver looks at
Capabilities ==
    {"Sensors", "Thermometer", "HumiditySensor", "Lock", "EntrySensor", "BinarySensor"}

\* overlay.sensorName: nothing selected, a sensor of the device, a sensor the
\* device no longer has
SensorNames == {None, SensorId, "zz"}

InitResolve ==
    /\ variant \in Variants
    /\ srcIfaces \in SUBSET Capabilities
    /\ \E name \in SensorNames, dev \in {SourceDevice, "gone"} :
          cfg = [o \in OverlayIds |-> OverlayCfg("Device", "hi", dev, "t1", name)]
    /\ killed = FALSE
    /\ initTimer = TRUE
    /\ sleeping = FALSE
    /\ reported = OverlayIds
    /\ overlays = {}
    /\ schema = EmptySchema
    /\ passes = <<>>
    /\ listenersMap = [o \in OverlayIds |-> NoEntry]
    /\ refreshInterval = "none"
    /\ leaked = <<>>
    /\ ticks = <<>>
    /\ lastFace = ""
    /\ template = ""
    /\ changes = 0
    /\ latestTrigger = [read |-> FALSE, ids |-> {}]
    /\ log = <<>>
    /\ templates = TemplateIds
    /\ dups = <<>>
    /\ tplDevices = TemplateDevices
    /\ tplSensors = <<SensorId>>
    /\ result = NoResult

\* the head of start()'s loop body run for overlay "o1"
ApplyResolve ==
    /\ result.kind = "none"
    /\ result' = [NoResult EXCEPT !.kind = "resolve", !.plan = Resolve(getOverlay("o1"))]
    /\ UNCHANGED <<variant, killed, initTimer, sleeping, reported, overlays, cfg, schema,
                   passes, listenersMap, refreshInterval, leaked, ticks, lastFace, template,
                   srcIfaces, changes, latestTrigger, log, templates, dups,
                   tplDevices, tplSensors>>

NextResolve == ApplyResolve

SpecResolve == InitResolve /\ [][NextResolve]_vars

-----------------------------------------------------------------------------
(* The template renderer on its own: parser strings, device lists, sensor
   selections, source devices of every measurement, character limits *)

\* parser strings of template "t1"
TemplateStrings ==
    {"T:{d1.s1} H:{d1.h1}", "{d1.s1}{d1.s1}", "{d1.x}", "A{gone.x}B{d1.x}", "{d1.zz}!"}

\* template:t1:devices; "gone" is a device that no longer exists
DeviceLists == {<<SourceDevice>>, <<"gone", SourceDevice>>, <<"gone">>}

\* the sensors selected for "d1"; "zz" is a sensor the device no longer has
SensorLists == {<<SensorId, "h1">>, <<SensorId>>, <<"zz">>, <<>>}

\* the interfaces of "d1"; the empty set stands for a device with none of the
\* measurements applyDeviceTemplate knows
TemplateProfiles ==
    {{"Sensors"}, {"Sensors", "Thermometer"}, {"Thermometer"}, {"HumiditySensor"},
     {"EntrySensor"}, {"Lock"}, {"BinarySensor"}, {}}

\* overlay.maxCharacters: the setting exists in the polling revision only
CharacterLimits == IF variant = "polling" THEN {0, 2, 5} ELSE {0}

InitTemplate ==
    /\ variant \in {"listeners", "polling"}
    /\ template \in TemplateStrings
    /\ templates = TemplateIds
    /\ dups = <<>>
    /\ tplDevices \in DeviceLists
    /\ tplSensors \in SensorLists
    /\ srcIfaces \in TemplateProfiles
    /\ \E mc \in CharacterLimits :
          cfg = [o \in OverlayIds |-> [CfgOf("Template") EXCEPT !.maxCharacters = mc]]
    /\ killed = FALSE
    /\ initTimer = TRUE
    /\ sleeping = FALSE
    /\ reported = OverlayIds
    /\ overlays = {}
    /\ schema = EmptySchema
    /\ passes = <<>>
    /\ listenersMap = [o \in OverlayIds |-> NoEntry]
    /\ refreshInterval = "none"
    /\ leaked = <<>>
    /\ ticks = <<>>
    /\ lastFace = ""
    /\ changes = 0
    /\ latestTrigger = [read |-> FALSE, ids |-> {}]
    /\ log = <<>>
    /\ result = NoResult

\* updateOverlayDataFromTemplate run for overlay "o1" with the devices reading rd
ApplyTemplate(rd) ==
    /\ result.kind = "none"
    /\ result' = [NoResult EXCEPT !.kind = "template", !.rd = rd,
                                   !.entry = updateOverlayDataFromTemplate("o1", rd)]
    /\ UNCHANGED <<variant, killed, initTimer, sleeping, reported, overlays, cfg, schema,
                   passes, listenersMap, refreshInterval, leaked, ticks, lastFace, template,
                   srcIfaces, changes, latestTrigger, log, templates, dups,
                   tplDevices, tplSensors>>

NextTemplate == \E rd \in Readings : ApplyTemplate(rd)

SpecTemplate == InitTemplate /\ [][NextTemplate]_vars

-----------------------------------------------------------------------------
(* Vocabulary of the properties *)

\* a refreshSettings() call completes in this step: removeListeners(); start()
PassCompletes == Len(passes') < Len(passes)

\* the call that completes in this step is the one init() awaits in the legacy
\* revision, so start() runs a second time in the same step
StartsTwice ==
    /\ variant = "legacy"
    /\ \E i \in DOMAIN passes : passes[i].init /\ passes' = RemoveAt(passes, i)

\* the number of renders of overlay o in lg, and of those made on one path
RendersOf(lg, o) == Cardinality({k \in DOMAIN lg : lg[k].o = o})
Renders(lg, o, path) == Cardinality({k \in DOMAIN lg : lg[k].o = o /\ lg[k].path = path})

\* the kind of an overlay by its stored settings: bound to an event source,
\* static (StaticText, Disabled), or a template
EventKind(o) ==
    /\ Resolve(getOverlay(o)).listenerType # None
    /\ Resolve(getOverlay(o)).iface # None
    /\ Resolve(getOverlay(o)).device # None
StaticKind(o) ==
    /\ Resolve(getOverlay(o)).listenerType = None
    /\ getOverlay(o).type \in {"Text", "Disabled"}
TemplateKind(o) ==
    /\ Resolve(getOverlay(o)).listenerType = None
    /\ getOverlay(o).type = "Template"
    /\ getOverlay(o).template # None

\* the registration the settings of overlay o call for
WantedEntry(o) ==
    IF EventKind(o) THEN ListenerEntry(Resolve(getOverlay(o)))
    ELSE IF variant = "listeners" /\ TemplateKind(o) THEN IntervalEntry
    ELSE NoEntry

\* the registrations and timers the settings and the overlay list call for
Wanted ==
    IF variant = "polling" THEN {Reg(None, IntervalEntry)}
    ELSE {Reg(o, WantedEntry(o)) : o \in {x \in overlays : WantedEntry(x).live}}

\* the number of live registrations and timers of overlay o (None: of the
\* refresh timer), referenced or not
LiveCount(o) ==
    (IF o \in OverlayIds /\ listenersMap[o].live THEN 1 ELSE 0)
    + (IF o = None /\ refreshInterval = "live" THEN 1 ELSE 0)
    + Cardinality({k \in DOMAIN leaked : leaked[k].o = o})

\* what a static render of overlay o comes to
StaticOut(o) ==
    IF sleeping THEN "asleep"
    ELSE IF getOverlay(o).type = "Disabled" THEN "clear"
    ELSE IF getOverlay(o).text # "" THEN "set"
    ELSE "none"

-----------------------------------------------------------------------------
(* C1 *)

\* C1, as stated: once release() has run, no event subscription and no timer
\* of the device is live, in any state reached afterwards.
C1_TeardownComplete == killed => Live = {}

-----------------------------------------------------------------------------
(* C2 *)

\* C2, as stated: at most one refreshSettings() call is in flight at any time.
C2_SingleFlight == Len(passes) <= 1

-----------------------------------------------------------------------------
(* C3 *)

\* C3, as stated: once every pass has completed, the overlay list is the one
\* read for the latest trigger, never the one an earlier pass read.
C3_LatestTriggerWins ==
    (passes = <<>> /\ latestTrigger.read) => overlays = latestTrigger.ids

-----------------------------------------------------------------------------
(* C4 *)

\* C4, as stated: while the camera reports sleeping no render, on any path,
\* issues a sink write (set-text or clear).
C4_NoWriteWhileSleeping ==
    sleeping => \A k \in DOMAIN log : log[k].out \notin {"set", "clear"}

-----------------------------------------------------------------------------
(* C5 *)

\* C5: every completed pass, and start() run a second time by the legacy
\* init(), leaves exactly the registrations the stored settings and the overlay
\* list call for, so a pass over unchanged settings and slots leaves the same
\* set; no overlay id, and not the refresh timer, has more than one live
\* registration; the second start() renders what the first rendered.
C5_Idempotent ==
    [][PassCompletes =>
          /\ Live' = Wanted'
          /\ \A o \in OverlayIds \cup {None} : LiveCount(o)' <= 1
          /\ StartsTwice =>
                /\ Len(log') = 2 * (Len(log') \div 2)
                /\ SubSeq(log', 1, Len(log') \div 2)
                     = SubSeq(log', Len(log') \div 2 + 1, Len(log'))]_vars

\* start() has run twice in one step and left live listeners
C5_Witness ==
    /\ variant = "legacy"
    /\ passes = <<>>
    /\ Len(log) = 2 * Cardinality(overlays)
    /\ \E o \in overlays : listenersMap[o].live /\ RendersOf(log, o) = 2

-----------------------------------------------------------------------------
(* C6 *)

\* C6, as stated: after a pass completes, every live subscription is for an
\* overlay id the camera reports at that moment.
C6_ReportedOnly ==
    [][PassCompletes => \A o \in OverlayIds : listenersMap'[o].live => o \in reported']_vars

\* C6, amended: after a pass completes no registration or timer of an earlier
\* pass is live, and every live subscription is for an overlay id of the list
\* the mixin last read from the camera (this.overlays); in the polling revision
\* the one live timer is the refresh timer the pass created.
C6_TeardownPerPass ==
    [][PassCompletes =>
          /\ leaked' = <<>>
          /\ \A o \in OverlayIds : listenersMap'[o].live => o \in overlays'
          /\ variant = "polling" => refreshInterval' = "live"]_vars

\* a pass has completed after the camera stopped reporting "o2": the entry of
\* "o2" was cancelled and "o1" has a live one
C6_Witness ==
    /\ passes = <<>>
    /\ ~killed
    /\ overlays = {"o1"}
    /\ listenersMap["o1"].live
    /\ listenersMap["o2"].kind # "none"
    /\ ~listenersMap["o2"].live

-----------------------------------------------------------------------------
(* C7 *)

-----------------------------------------------------------------------------
(* C8 *)

-----------------------------------------------------------------------------
(* C9 *)

-----------------------------------------------------------------------------
(* C10 *)

\* C10, as stated: a set-text write is issued only for a non-empty text, a
\* clear write only when no text was produced and the overlay is Disabled.
C10_SinkWriteRule ==
    \A k \in DOMAIN log :
        /\ log[k].out = "set" => log[k].text # ""
        /\ log[k].out = "clear" => (log[k].text = "" /\ cfg[log[k].o].type = "Disabled")

-----------------------------------------------------------------------------
(* C11 *)

\* C11, as stated: when the sink write of one overlay fails during a run of
\* the refresh timer's callback, the overlays after it in the same run are
\* still resolved and rendered, exactly as they are when the write succeeds.
C11_FailureIsolation ==
    [][\A i \in 1..MaxTicks :
          TickFails(i) => \E rd \in Readings : log' = funct(ticks[i], lastFace, <<>>, rd).lg]_vars

-----------------------------------------------------------------------------
(* C12 *)

\* the measurement rules in their order, and the capability each one tests
KindOrder == <<"Temperature", "Humidity", "Lock", "Entry", "Binary">>
CapabilityOrder == <<"Thermometer", "HumiditySensor", "Lock", "EntrySensor", "BinarySensor">>

\* the plan of the first rule among the given ones whose capability the source has
FirstRule(rules) ==
    LET hit == {k \in rules : CapabilityOrder[k] \in srcIfaces}
    IN  IF hit = {} THEN NoPlan
        ELSE LET k == CHOOSE x \in hit : \A y \in hit : x <= y
             IN  Plan(KindOrder[k], CapabilityOrder[k], SourceDevice)

\* C12, as stated: the listener kind is the first match of (1) multi-sensor
\* capability and a sensor selected -> Sensors, (2) Thermometer, (3) Humidity,
\* (4) Lock, (5) Entry, (6) binary state.
C12_FirstMatch ==
    (result.kind = "resolve" /\ cfg["o1"].device = SourceDevice) =>
        result.plan.listenerType =
            (IF "Sensors" \in srcIfaces /\ cfg["o1"].sensorName # None THEN "Sensors"
             ELSE FirstRule(1..5).listenerType)

\* C12, amended.  A source that exposes the multi-sensor capability is decided
\* by that rule alone: Sensors, keyed by the id of the sensor whose name is
\* selected (no key when the device has no such sensor), and no listener at
\* all when no sensor is selected; the rules below are not tried.  Any other
\* source takes the first match of Thermometer, Humidity, Lock, Entry, binary
\* state.  The listeners revision has no binary rule, the legacy revision has
\* neither the multi-sensor rule nor the binary rule.
C12_DecisionTable ==
    (result.kind = "resolve" /\ cfg["o1"].device = SourceDevice) =>
        result.plan =
            (IF variant # "legacy" /\ "Sensors" \in srcIfaces
             THEN IF cfg["o1"].sensorName = None THEN NoPlan
                  ELSE Plan("Sensors",
                            IF cfg["o1"].sensorName = SensorId THEN SensorId ELSE None,
                            SourceDevice)
             ELSE FirstRule(IF variant = "polling" THEN 1..5 ELSE 1..4))

\* the resolver has chosen Lock for a source that is a lock and an entry sensor
C12_Witness ==
    /\ result.kind = "resolve"
    /\ {"Lock", "EntrySensor"} \subseteq srcIfaces
    /\ result.plan.listenerType = "Lock"

-----------------------------------------------------------------------------
(* C13 *)

\* overlay o is bound to a source device that no longer exists
MissingSource(o) == cfg[o].type = "Device" /\ cfg[o].device \notin {SourceDevice, CameraId}

\* overlay p is one start() or funct has something to do for
ActiveKind(p) == EventKind(p) \/ StaticKind(p) \/ TemplateKind(p)

\* C13: a pass (and, in the polling revision, a run of the refresh timer's
\* callback) that meets a DeviceBound overlay whose source device is not found
\* leaves that overlay without any live subscription or timer, renders nothing
\* for it (no set-text write, no clear write), and goes on with the overlays
\* that are left: the event-bound ones are subscribed and rendered, the static
\* ones rendered, the template ones given their timer.
C13_MissingDevice ==
    [][/\ (PassCompletes /\ variant # "polling") =>
              \A o \in overlays' : MissingSource(o) =>
                  /\ LiveCount(o)' = 0
                  /\ RendersOf(log', o) = 0
                  /\ \A p \in overlays' \ {o} :
                        /\ EventKind(p) =>
                              listenersMap'[p].live /\ Renders(log', p, "subscribe") >= 1
                        /\ StaticKind(p) => Renders(log', p, "static") >= 1
                        /\ (variant = "listeners" /\ TemplateKind(p)) => listenersMap'[p].live
       /\ \A rd \in Readings :
              (variant = "polling" /\ passes' = passes /\ RefreshTick(rd)) =>
                  \A o \in overlays : MissingSource(o) =>
                      /\ RendersOf(log', o) = 0
                      /\ (o = "o1" /\ "o2" \in overlays /\ ActiveKind("o2")) =>
                            RendersOf(log', "o2") = 1]_vars

\* a pass has met overlay "o1" bound to a device that no longer exists: the
\* listener "o1" had is cancelled, nothing was rendered for "o1", and the Text
\* overlay "o2" after it was written
C13_Witness ==
    /\ passes = <<>>
    /\ MissingSource("o1")
    /\ overlays = {"o1", "o2"}
    /\ listenersMap["o1"].kind = "listener"
    /\ ~listenersMap["o1"].live
    /\ RendersOf(log, "o1") = 0
    /\ \E k \in DOMAIN log : log[k].o = "o2" /\ log[k].path = "static" /\ log[k].out = "set"

-----------------------------------------------------------------------------
(* C14 *)

\* the event carries a value: every payload but a detection without a face label
Carries(iface, code) == ~(iface \in {"ObjectDetector", "ObjectDetection"} /\ code = 2)

\* the text an event with payload code shows on an overlay of the listener
\* type, with the default format expression and one decimal
EventText(listenerType, code) ==
    CASE listenerType \in {"Temperature", "Sensors"} -> IF code = 1 THEN "21.5 C" ELSE "2.9 C"
      [] listenerType \in {"Humidity", "Battery"} -> IF code = 1 THEN "21.5 %" ELSE "2.9 %"
      [] listenerType = "Lock" -> IF code = 1 THEN "Locked " ELSE "Unlocked "
      [] listenerType = "Entry" -> IF code = 1 THEN "Open " ELSE "Closed "
      [] listenerType = "Face" -> "Bob "
      [] OTHER -> ""

\* C14: falling asleep and waking up leave every subscription and timer as it
\* is.  While the camera sleeps the callback of an event writes nothing; while
\* it is awake every event that carries a value gives, for each overlay whose
\* settings call for the subscription it is delivered to, one set-text write
\* with the text of that value, whether or not the camera has slept before.
\* A tick of a template timer, and a run of the refresh timer's callback on an
\* awake camera for the event-bound overlays it reaches, write as well.
C14_WakeUp ==
    [][/\ sleeping' # sleeping =>
              /\ Live' = Live
              /\ listenersMap' = listenersMap
              /\ refreshInterval' = refreshInterval
       /\ \A dev \in EventDevices, iface \in EventInterfaces, code \in Readings :
              (/\ log' # <<>> /\ passes' = passes /\ ticks' = ticks /\ listenersMap' = listenersMap
               /\ DeviceEvent(dev, iface, code)) =>
                  /\ sleeping => \A k \in DOMAIN log' : log'[k].out = "asleep"
                  /\ (~sleeping /\ Carries(iface, code)) =>
                        \A r \in Listening(dev, iface) :
                            r = Reg(r.o, WantedEntry(r.o)) =>
                                \E k \in DOMAIN log' :
                                    /\ log'[k].o = r.o
                                    /\ log'[k].out = "set"
                                    /\ log'[k].text = EventText(r.listenerType, code)
       /\ \A o \in OverlayIds, rd \in Readings :
              (variant = "listeners" /\ passes' = passes /\ TemplateTick(o, rd)) =>
                  log'[1].out = "set"
       /\ \A rd \in Readings :
              (variant = "polling" /\ passes' = passes /\ ~sleeping /\ RefreshTick(rd)) =>
                  \A k \in DOMAIN log' : log'[k].path = "poll" => log'[k].out = "set"]_vars

\* the latest pass ran while the camera slept; the camera is awake again and
\* an event delivered to a subscription has written its value
C14_Witness ==
    /\ ~initTimer
    /\ ~killed
    /\ ~latestTrigger.read
    /\ ~sleeping
    /\ passes = <<>>
    /\ \E k \in DOMAIN log :
          /\ log[k].path = "event"
          /\ log[k].out = "set"
          /\ log[k].text = EventText(log[k].lt, 1)
          /\ listenersMap[log[k].o].live

-----------------------------------------------------------------------------
(* C15 *)

\* C15: every trigger (the init timer, a write of an overlay setting, the
\* refresh button) starts a refreshSettings() call, and no such call stays in
\* flight for ever: either passes complete again and again, or from some point
\* on none is in flight.  Either way a completed pass follows every trigger.
C15_TriggersLeadToPass ==
    []<><<PassCompletes>>_vars \/ <>[](passes = <<>>)

\* a settings write has started a pass while the init pass was still in flight
C15_Witness ==
    /\ ~initTimer
    /\ changes = 1
    /\ Len(passes) = 2
    /\ passes[1].init
    /\ ~passes[2].init

-----------------------------------------------------------------------------
(* C16 *)

\* the template was rendered for a device list, with no character limit
RenderedFor(devices) ==
    /\ result.kind = "template"
    /\ tplDevices = devices
    /\ cfg["o1"].maxCharacters = 0

\* the sensor ids of a list
SensorsIn(ids) == {ids[k] : k \in DOMAIN ids}

\* the numbers the readings stand for, as they are shown with one decimal
ShownNumber(rd) == IF rd = 1 THEN "21.5" ELSE "2.9"

\* C16: for the found multi-sensor device "d1", every occurrence of the
\* placeholder {d1.<sensor>} of every selected sensor the device has is replaced
\* by the sensor's formatted value and the text around it is kept:
\* "T:{d1.s1} H:{d1.h1}" with values 21.5 and 55 is rendered "T:21.5 H:55",
\* "{d1.s1}{d1.s1}" is rendered "21.521.5", and a string that holds no
\* placeholder of a selected sensor is rendered as it is.
C16_Substitution ==
    (RenderedFor(<<SourceDevice>>) /\ "Sensors" \in srcIfaces) =>
        /\ \A sid \in SensorsIn(tplSensors) \cap DeviceSensors :
              IndexFrom(result.entry.text, "{d1." \o sid \o "}", 1) = 0
        /\ (template = "T:{d1.s1} H:{d1.h1}" /\ tplSensors = <<SensorId, "h1">>) =>
              result.entry.text = "T:" \o ShownNumber(result.rd) \o " H:55"
        /\ (template = "{d1.s1}{d1.s1}" /\ SensorId \in SensorsIn(tplSensors)) =>
              result.entry.text = ShownNumber(result.rd) \o ShownNumber(result.rd)
        /\ (template \in {"{d1.x}", "A{gone.x}B{d1.x}"} \/ tplSensors = <<>>) =>
              result.entry.text = template

\* the example of the claim has been rendered
C16_Witness ==
    /\ RenderedFor(<<SourceDevice>>)
    /\ template = "T:{d1.s1} H:{d1.h1}"
    /\ result.entry.text = "T:21.5 H:55"

-----------------------------------------------------------------------------
(* C17 *)

\* C17: a device of the template that is not found is skipped.  Its
\* placeholders stay in the output as they are, the placeholders of the
\* devices after it are substituted, and the result is written: with the list
\* <<"gone", "d1">> and "d1" a thermometer, "A{gone.x}B{d1.x}" is written as
\* "A{gone.x}B21.5"; with the list <<"gone">> every parser string is written
\* as it is.
C17_MissingTemplateDevice ==
    /\ RenderedFor(<<"gone">>) =>
          result.entry.out = "set" /\ result.entry.text = template
    /\ RenderedFor(<<"gone", SourceDevice>>) =>
          /\ result.entry.out = "set"
          /\ IndexFrom(template, "{gone.x}", 1) # 0 =>
                IndexFrom(result.entry.text, "{gone.x}", 1) # 0
          /\ (template = "A{gone.x}B{d1.x}" /\ srcIfaces = {"Thermometer"}) =>
                result.entry.text = "A{gone.x}B" \o ShownNumber(result.rd)
          /\ (template = "{d1.x}" /\ srcIfaces = {"Lock"}) =>
                result.entry.text = (IF result.rd = 1 THEN "Locked" ELSE "Unlocked")

\* the missing device was skipped and the thermometer after it substituted
C17_Witness ==
    /\ RenderedFor(<<"gone", SourceDevice>>)
    /\ result.entry.out = "set"
    /\ result.entry.text = "A{gone.x}B21.5"

-----------------------------------------------------------------------------
(* C18 *)

\* C18, as stated: a placeholder whose value cannot be resolved on a found
\* device (the selected sensor is not on the device any more, or the device
\* has none of the supported measurements) is written as its literal text.
C18_LiteralPassThrough ==
    RenderedFor(<<SourceDevice>>) =>
        /\ (srcIfaces = {"Sensors"} /\ tplSensors = <<"zz">> /\ template = "{d1.zz}!") =>
              result.entry.text = "{d1.zz}!"
        /\ (srcIfaces = {} /\ template = "{d1.x}") =>
              result.entry.text = "{d1.x}"

-----------------------------------------------------------------------------
(* C19 *)

\* C19, as stated, for the binary device: the placeholder of a device with
\* the binary-state measurement is rendered as openText when the state is true
\* and as closedText when it is false, as a direct render of the device does.
C19_BinaryText ==
    (RenderedFor(<<SourceDevice>>) /\ srcIfaces = {"BinarySensor"} /\ template = "{d1.x}") =>
        result.entry.text =
            (IF result.rd = 1 THEN PluginTexts.openText ELSE PluginTexts.closedText)

-----------------------------------------------------------------------------
(* C20 *)

\* the parser string after substitution
Substituted == applyDevices(template, tplDevices, result.rd)

\* C20: the text the template path writes is the substituted parser string
\* cut to the overlay's maxCharacters: the string itself when no limit is set
\* or it fits, else its first maxCharacters - 3 characters (none when the
\* limit is below 3) followed by "...".  The listeners revision has no
\* maxCharacters setting and writes the string as it is.
C20_TemplateTruncation ==
    result.kind = "template" =>
        /\ result.entry.out = "set"
        /\ result.entry.text =
              (IF cfg["o1"].maxCharacters = 0 \/ Len(Substituted) <= cfg["o1"].maxCharacters
               THEN Substituted
               ELSE IF cfg["o1"].maxCharacters < 3 THEN "..."
               ELSE SubSeq(Substituted, 1, cfg["o1"].maxCharacters - 3) \o "...")

\* a substituted string longer than the limit of 5 was cut to 2 characters and "..."
C20_Witness ==
    /\ result.kind = "template"
    /\ cfg["o1"].maxCharacters = 5
    /\ Len(Substituted) > 5
    /\ result.entry.text = SubSeq(Substituted, 1, 2) \o "..."
    /\ Len(result.entry.text) = 5

-----------------------------------------------------------------------------
(* The plugin's template list changes under a camera whose overlay "o1" is a
   Template overlay of template "t1" *)

\* the values the plugin's "templates" setting may be written with
TemplateLists == SUBSET TemplateIds

\* putSetting of the plugin's "templates" setting: the list is stored and its
\* onPut hook runs the plugin's refreshSettings(), which rebuilds the plugin's
\* own settings from the list.  The template's storage keys are left as they
\* are and no mixin is told.
TemplatesPut(v) ==
    /\ v \in TemplateLists
    /\ v # templates
    /\ templates' = v
    /\ log' = <<>>
    /\ UNCHANGED <<dups, tplDevices, tplSensors, result, variant, killed, initTimer, sleeping,
                   reported, overlays, cfg, schema, passes, listenersMap, refreshInterval,
                   leaked, ticks, lastFace, template, srcIfaces, changes, latestTrigger>>

InitOrphan ==
    /\ variant \in {"listeners", "polling"}
    /\ killed = FALSE
    /\ initTimer = TRUE
    /\ sleeping = FALSE
    /\ reported = OverlayIds
    /\ overlays = {}
    /\ cfg = [o \in OverlayIds |-> CfgOf(IF o = "o1" THEN "Template" ELSE "Disabled")]
    /\ schema = EmptySchema
    /\ passes = <<>>
    /\ listenersMap = [o \in OverlayIds |-> NoEntry]
    /\ refreshInterval = "none"
    /\ leaked = <<>>
    /\ ticks = <<>>
    /\ lastFace = ""
    /\ template = "T:{d1.x}"
    /\ srcIfaces = {"Thermometer"}
    /\ changes = 0
    /\ latestTrigger = [read |-> FALSE, ids |-> {}]
    /\ log = <<>>
    /\ templates = TemplateIds
    /\ dups = <<>>
    /\ tplDevices = TemplateDevices
    /\ tplSensors = <<SensorId>>
    /\ result = NoResult

NextOrphan ==
    \/ Next
    \/ \E v \in TemplateLists : TemplatesPut(v)

SpecOrphan == InitOrphan /\ [][NextOrphan]_vars

-----------------------------------------------------------------------------
(* C21 *)

\* overlay o is written by the template path in this step
TemplateWrite(o) ==
    \E k \in DOMAIN log' :
        log'[k].o = o /\ log'[k].path = "template" /\ log'[k].out = "set"

\* overlay o refers to a template the plugin's list does not hold
Orphaned(o) ==
    /\ cfg[o].type = "Template"
    /\ cfg[o].template # None
    /\ cfg[o].template \notin templates

\* C21, as stated: once a template is gone from the plugin's template list,
\* the template path issues no further sink write for an overlay that still
\* refers to it.  The code never looks at the list when it renders: the
\* overlay's timer stays armed, the template's storage keys stay in place, and
\* every tick writes the parser string again; a later pass arms the timer anew.
C21_OrphanStopsRendering ==
    [][\A o \in OverlayIds : Orphaned(o) => ~TemplateWrite(o)]_vars

-----------------------------------------------------------------------------
(* C22 *)

\* C22, as stated: after a sink write of a text for an overlay, the overlay's
\* stored currentText is the text written.  No render path writes currentText:
\* updateOverlayData and updateOverlayDataFromTemplate end with the sink call,
\* and the only write of the key, in getOverlayData, puts back the value it
\* has just read.
C22_CurrentTextTracks ==
    [][\A k \in DOMAIN log' :
          log'[k].out = "set" => cfg'[log'[k].o].currentText = log'[k].text]_vars

-----------------------------------------------------------------------------
(* limitText on its own: every text below with every character limit *)

\* the texts limitText is handed
LimitTexts ==
    {"", "a", "ab", "abc", "abcd", "abcde", "abcdef", "abcdefghij",
     "hi", "Locked", "21.5 C", "T:21.5", "Temperature: 21.5C"}

\* the overlay's Max Characters setting (a number field); 0 stands for every
\* falsy value, the unset field included
MaxCharacters == {-1, 0, 1, 2, 3, 4, 5, 6, 10, 18, 20}

InitLimit ==
    /\ variant = "polling"
    /\ killed = FALSE
    /\ initTimer = TRUE
    /\ sleeping = FALSE
    /\ reported = OverlayIds
    /\ overlays = {}
    /\ \E n \in MaxCharacters :
           cfg = [o \in OverlayIds |->
                    IF o = "o1" THEN [CfgOf("Text") EXCEPT !.maxCharacters = n]
                    ELSE CfgOf("Disabled")]
    /\ schema = EmptySchema
    /\ passes = <<>>
    /\ listenersMap = [o \in OverlayIds |-> NoEntry]
    /\ refreshInterval = "none"
    /\ leaked = <<>>
    /\ ticks = <<>>
    /\ lastFace = ""
    /\ template = ""
    /\ srcIfaces = {"Thermometer"}
    /\ changes = 0
    /\ latestTrigger = [read |-> FALSE, ids |-> {}]
    /\ log = <<>>
    /\ templates = TemplateIds
    /\ dups = <<>>
    /\ tplDevices = TemplateDevices
    /\ tplSensors = <<SensorId>>
    /\ result = NoResult

\* this.limitText({ overlayId: "o1", text })
ApplyLimit(text) ==
    /\ result' = [NoResult EXCEPT !.kind = "limitText",
                                  !.arg = <<text, getOverlay("o1").maxCharacters>>,
                                  !.val = <<limitText("o1", text)>>]
    /\ UNCHANGED <<variant, killed, initTimer, sleeping, reported, overlays, cfg, schema,
                   passes, listenersMap, refreshInterval, leaked, ticks, lastFace, template,
                   srcIfaces, changes, latestTrigger, log, templates, dups,
                   tplDevices, tplSensors>>

NextLimit == \E text \in LimitTexts : ApplyLimit(text)

SpecLimit == InitLimit /\ [][NextLimit]_vars

-----------------------------------------------------------------------------
(* C23 *)

\* limitText was applied to text under the character limit max
Limited(text, max) ==
    result.kind = "limitText" /\ result.arg = <<text, max>>

\* r is the first n characters of text (none when n is not positive) and "..."
Ellipsized(r, text, n) ==
    /\ Len(r) = (IF n > 0 THEN n ELSE 0) + 3
    /\ SubSeq(r, Len(r) - 2, Len(r)) = "..."
    /\ Len(r) - 3 <= Len(text)
    /\ SubSeq(text, 1, Len(r) - 3) = SubSeq(r, 1, Len(r) - 3)

\* C23: limitText returns the text as it is when maxCharacters is unset or
\* zero or the text is no longer than maxCharacters; otherwise it returns the
\* first maxCharacters - 3 characters of the text followed by "...".
C23_TruncationRule ==
    \A text \in LimitTexts, max \in MaxCharacters :
        Limited(text, max) =>
            IF max = 0 \/ Len(text) <= max
            THEN result.val = <<text>>
            ELSE Ellipsized(result.val[1], text, max - 3)

\* a text of ten characters was cut to two characters and the ellipsis
C23_Witness ==
    /\ Limited("abcdefghij", 5)
    /\ result.val = <<"ab...">>

-----------------------------------------------------------------------------
(* C24 *)

\* C24, as stated: "Temperature: 21.5C" limited to 10 characters gives
\* "Temperat...".  That is eight characters and the ellipsis, eleven in all;
\* the code keeps maxCharacters - 3 = 7 characters.
C24_Example ==
    Limited("Temperature: 21.5C", 10) => result.val = <<"Temperat...">>

\* C24, amended: "Temperature: 21.5C" limited to 10 characters gives
\* "Tempera...", seven characters and the ellipsis.
C24_ExampleOfTen ==
    Limited("Temperature: 21.5C", 10) => result.val = <<"Tempera...">>

\* the example's text was limited to 10 characters and came out ten characters long
C24_Witness ==
    /\ Limited("Temperature: 21.5C", 10)
    /\ Len(result.val[1]) = 10

-----------------------------------------------------------------------------
(* formatValue on its own: values of both signs, in thousandths, with 0 to 3
   decimals *)

\* the values formatValue is handed (thousandths: -2500 is -2.5)
FormatValues ==
    {-55000, -21549, -21500, -3000, -2999, -2990, -2500, -2001, -1000, -999, -500,
     -15, -1, 0, 1, 15, 499, 500, 999, 1000, 1150, 2001, 2500, 2990, 2999, 3000,
     21500, 21549, 55000, 99999}

\* the Max Decimals settings the fixed point can follow exactly
MaxDecimals == 0 .. 3

InitFormat ==
    /\ variant \in Variants
    /\ killed = FALSE
    /\ initTimer = TRUE
    /\ sleeping = FALSE
    /\ reported = OverlayIds
    /\ overlays = {}
    /\ cfg = [o \in OverlayIds |-> CfgOf(IF o = "o1" THEN "Device" ELSE "Text")]
    /\ schema = EmptySchema
    /\ passes = <<>>
    /\ listenersMap = [o \in OverlayIds |-> NoEntry]
    /\ refreshInterval = "none"
    /\ leaked = <<>>
    /\ ticks = <<>>
    /\ lastFace = ""
    /\ template = ""
    /\ srcIfaces = {"Thermometer"}
    /\ changes = 0
    /\ latestTrigger = [read |-> FALSE, ids |-> {}]
    /\ log = <<>>
    /\ templates = TemplateIds
    /\ dups = <<>>
    /\ tplDevices = TemplateDevices
    /\ tplSensors = <<SensorId>>
    /\ result = NoResult

\* formatValue(v, d)
ApplyFormat(v, d) ==
    /\ result' = [NoResult EXCEPT !.kind = "formatValue",
                                  !.arg = <<v, d>>,
                                  !.val = <<FormatValue(v, d)>>]
    /\ UNCHANGED <<variant, killed, initTimer, sleeping, reported, overlays, cfg, schema,
                   passes, listenersMap, refreshInterval, leaked, ticks, lastFace, template,
                   srcIfaces, changes, latestTrigger, log, templates, dups,
                   tplDevices, tplSensors>>

NextFormat == \E v \in FormatValues, d \in MaxDecimals : ApplyFormat(v, d)

SpecFormat == InitFormat /\ [][NextFormat]_vars

-----------------------------------------------------------------------------
(* C25 *)

\* formatValue was applied to v with d decimals
Formatted(v, d) ==
    result.kind = "formatValue" /\ result.arg = <<v, d>>

Abs(x) == IF x < 0 THEN 0 - x ELSE x

\* C25: formatValue(v, d) is floor(v * 10^d) / 10^d: the largest multiple of
\* 10^-d that is not above v, for values of either sign; formatValue(2.999, 2)
\* is 2.99.
C25_Floor ==
    /\ \A v \in FormatValues, d \in MaxDecimals :
          Formatted(v, d) =>
              /\ (result.val[1] * Pow10(d)) % Scale = 0
              /\ result.val[1] <= v
              /\ (v - result.val[1]) * Pow10(d) < Scale
    /\ Formatted(2999, 2) => result.val = <<2990>>

\* formatValue(2.999, 2) was computed and is 2.99
C25_Witness ==
    /\ Formatted(2999, 2)
    /\ result.val = <<2990>>

-----------------------------------------------------------------------------
(* C26 *)

\* C26, as stated: the magnitude of formatValue(v, d) is never above the
\* magnitude of v.  Math.floor rounds toward minus infinity: a negative value
\* with more than d decimals comes out larger in magnitude, -2.5 as -3.
C26_TowardZero ==
    \A v \in FormatValues, d \in MaxDecimals :
        Formatted(v, d) => Abs(result.val[1]) <= Abs(v)

\* C26, amended: formatValue never rounds up.  A value that is not negative
\* keeps or loses magnitude; a negative value keeps or gains magnitude, by
\* less than 10^-d.
C26_TowardMinusInfinity ==
    \A v \in FormatValues, d \in MaxDecimals :
        Formatted(v, d) =>
            /\ v >= 0 => (0 <= result.val[1] /\ Abs(result.val[1]) <= Abs(v))
            /\ v < 0 => /\ result.val[1] < 0
                        /\ Abs(result.val[1]) >= Abs(v)
                        /\ (Abs(result.val[1]) - Abs(v)) * Pow10(d) < Scale

\* formatValue(-2.5, 0) was computed and is -3
C26_Witness ==
    /\ Formatted(-2500, 0)
    /\ result.val = <<-3000>>

-----------------------------------------------------------------------------
(* parseOverlayData on its own: every listener kind a revision has, with the
   payloads a device of that kind may deliver *)

\* the spellings a lock's jammed state may arrive in: the code compares with
\* the literal 'jammed', the SDK names its states like LockState.Locked
JammedStates == {"jammed", "Jammed"}

\* the listener kinds parseOverlayData has a case for
ParsedKinds ==
    IF variant = "legacy" THEN {"Lock", "Entry", "Temperature", "Humidity", "Battery", "Face"}
    ELSE {"Lock", "Entry", "Binary", "Temperature", "Humidity", "Battery", "Face"}

\* the payloads a device delivers to a listener of a kind
ParsedPayloads(listenerType) ==
    CASE listenerType = "Lock" -> {Str("Locked"), Str("Unlocked")} \cup {Str(j) : j \in JammedStates}
      [] listenerType = "Entry" -> {Num(1), Num(0), Str("jammed")}
      [] listenerType = "Binary" -> {Num(1), Num(0)}
      [] listenerType = "Face" -> {Str("Bob"), Str(Undef)}
      [] OTHER -> {Num(21500), Num(2999), Num(-2500)}

InitParse ==
    /\ variant \in Variants
    /\ killed = FALSE
    /\ initTimer = TRUE
    /\ sleeping = FALSE
    /\ reported = OverlayIds
    /\ overlays = {}
    /\ \E d \in MaxDecimals :
           cfg = [o \in OverlayIds |->
                    IF o = "o1" THEN [CfgOf("Device") EXCEPT !.maxDecimals = d]
                    ELSE CfgOf("Text")]
    /\ schema = EmptySchema
    /\ passes = <<>>
    /\ listenersMap = [o \in OverlayIds |-> NoEntry]
    /\ refreshInterval = "none"
    /\ leaked = <<>>
    /\ ticks = <<>>
    /\ lastFace = ""
    /\ template = ""
    /\ srcIfaces = {"Thermometer"}
    /\ changes = 0
    /\ latestTrigger = [read |-> FALSE, ids |-> {}]
    /\ log = <<>>
    /\ templates = TemplateIds
    /\ dups = <<>>
    /\ tplDevices = TemplateDevices
    /\ tplSensors = <<SensorId>>
    /\ result = NoResult

\* parseOverlayData({ data, listenerType, overlay }) for overlay "o1":
\* val is <<value, textToUpdate>>
ApplyParse(listenerType, data) ==
    /\ listenerType \in ParsedKinds
    /\ data \in ParsedPayloads(listenerType)
    /\ \E p \in {parseOverlayData(listenerType, data, getOverlay("o1"))} :
           result' = [NoResult EXCEPT !.kind = "parseOverlayData",
                                      !.arg = <<listenerType, data>>,
                                      !.val = <<p.value, p.text>>]
    /\ UNCHANGED <<variant, killed, initTimer, sleeping, reported, overlays, cfg, schema,
                   passes, listenersMap, refreshInterval, leaked, ticks, lastFace, template,
                   srcIfaces, changes, latestTrigger, log, templates, dups,
                   tplDevices, tplSensors>>

NextParse ==
    \E listenerType \in EventKinds :
        \E data \in ParsedPayloads(listenerType) : ApplyParse(listenerType, data)

SpecParse == InitParse /\ [][NextParse]_vars

-----------------------------------------------------------------------------
(* C27 *)

\* parseOverlayData was applied to data for a listener of kind listenerType
ParsedFor(listenerType, data) ==
    result.kind = "parseOverlayData" /\ result.arg = <<listenerType, data>>

\* C27, as stated: a Lock render shows lockText for the locked state,
\* unlockText for the unlocked state and jammedText for the jammed state.
\* The older parseOverlayData has no jammed case and shows unlockText; the
\* newer getLockText shows jammedText only for a state spelled 'jammed'.
C27_LockMapping ==
    /\ ParsedFor("Lock", Str("Locked")) => result.val[1] = PluginTexts.lockText
    /\ ParsedFor("Lock", Str("Unlocked")) => result.val[1] = PluginTexts.unlockText
    /\ \A j \in JammedStates :
          ParsedFor("Lock", Str(j)) => result.val[1] = PluginTexts.jammedText

-----------------------------------------------------------------------------
(* C28 *)

\* C28: for the Entry and Binary listener kinds, a direct render shows the
\* configured openText for data true and closedText for data false, put
\* through the overlay's format expression.
C28_OpenClosed ==
    \A listenerType \in {"Entry", "Binary"} :
        /\ ParsedFor(listenerType, Num(1)) => result.val = <<"Open", "Open ">>
        /\ ParsedFor(listenerType, Num(0)) => result.val = <<"Closed", "Closed ">>

\* a Binary listener was handed true and shows openText
C28_Witness ==
    /\ ParsedFor("Binary", Num(1))
    /\ result.val[1] = PluginTexts.openText

-----------------------------------------------------------------------------
(* "Duplicate from device": the settings of another camera of the plugin are
   copied onto this one *)

\* the stored overlay settings the source camera's mixin may hold
\* (this.plugin.mixinsMap[deviceId].storageSettings), per overlay id
SourceSettings ==
    { [o \in OverlayIds |->
          IF o = "o1" THEN [OverlayCfg("Text", "src", SourceDevice, None, SensorId)
                               EXCEPT !.maxDecimals = 2, !.regex = "${value}"]
          ELSE [OverlayCfg("Device", "", SourceDevice, None, SensorId)
                   EXCEPT !.maxDecimals = 0]],
      [o \in OverlayIds |->
          IF o = "o1" THEN OverlayCfg("Template", "hi", SourceDevice, "t1", SensorId)
          ELSE OverlayCfg("FaceDetection", "hi", SourceDevice, "t1", SensorId)] }

\* the overlay ids the source camera reports (textOverlaysToDuplicate)
SourceOverlays == OverlayIds

\* a duplicateFromDevice() call in flight: the source's settings, and whether
\* the source camera belongs to the same camera plugin as this one
Dup(from, samePlugin) == [from |-> from, samePlugin |-> samePlugin]

\* canDuplicate: the overlay ids of the source whose settings are copied
Eligible(d) ==
    {o \in SourceOverlays : (variant # "legacy" /\ d.samePlugin) \/ o \in overlays}

\* the putMixinSetting calls of duplicateFromDevice for one overlay: c the
\* overlay's stored settings, s the source's
CopyOverlay(c, s) ==
    IF variant = "legacy"
    THEN [c EXCEPT !.device = s.device, !.type = s.type, !.regex = s.regex,
                   !.maxDecimals = s.maxDecimals]
    ELSE IF variant = "listeners"
    THEN [c EXCEPT !.device = s.device, !.type = s.type, !.regex = s.regex,
                   !.sensorName = s.sensorName, !.unit = s.unit, !.template = s.template,
                   !.text = s.text, !.maxDecimals = s.maxDecimals]
    ELSE [c EXCEPT !.device = s.device, !.type = s.type, !.regex = s.regex,
                   !.sensorName = s.sensorName, !.unit = s.unit, !.template = s.template,
                   !.text = s.text, !.maxDecimals = s.maxDecimals,
                   !.maxCharacters = s.maxCharacters]

\* the stored settings after the loop of duplicateFromDevice
Duplicated(c, d) ==
    [o \in OverlayIds |-> IF o \in Eligible(d) THEN CopyOverlay(c[o], d.from[o]) ELSE c[o]]

\* the keys duplicateFromDevice puts that the settings built for a type carry
\* with onPut: onSettingUpdated
HookedKeys(type) ==
    CASE type = "Disabled" -> {"type"}
      [] type = "Template" -> {"type"} \cup (IF variant = "legacy" THEN {} ELSE {"template"})
      [] type = "Text" ->
            {"type", "regex", "maxDecimals"} \cup (IF variant = "legacy" THEN {} ELSE {"text"})
      [] type = "Device" -> {"type", "regex", "maxDecimals", "device"}
      [] OTHER -> {"type", "regex", "maxDecimals"}

\* the refreshSettings() calls duplicateFromDevice starts: one per put of a
\* key whose setting has the onPut hook, and (not in the first revision) the
\* call that ends duplicateFromDevice
Started(d) ==
    Cardinality({<<o, k>> \in OverlayIds \X {"type", "regex", "maxDecimals", "device",
                                              "text", "template"} :
                    /\ o \in Eligible(d)
                    /\ o \in DOMAIN schema
                    /\ k \in HookedKeys(schema[o])})
    + (IF variant = "legacy" THEN 0 ELSE 1)

\* n calls of refreshSettings() entered with the stored settings c
RECURSIVE Entered(_, _)
Entered(n, c) ==
    IF n <= 0 THEN <<>> ELSE <<refreshSettingsEntry(c, FALSE)>> \o Entered(n - 1, c)

\* putSetting of "duplicateFromDevice": its onPut hook calls
\* duplicateFromDevice(value), which finds the source device and suspends at
\* the await of the source's getVideoTextOverlays
DuplicateRequested(from, samePlugin) ==
    /\ ~killed
    /\ changes < MaxChanges
    /\ dups = <<>>
    /\ dups' = <<Dup(from, samePlugin)>>
    /\ changes' = changes + 1
    /\ log' = <<>>
    /\ UNCHANGED <<templates, tplDevices, tplSensors, result, variant, killed, initTimer,
                   sleeping, reported, overlays, cfg, schema, passes, listenersMap,
                   refreshInterval, leaked, ticks, lastFace, template, srcIfaces,
                   latestTrigger>>

\* duplicateFromDevice resumes with the source's overlays: the loop copies
\* the settings of every eligible overlay, and the passes the puts and the
\* last line start suspend at their first await.  Calls beyond MaxPasses in
\* flight are left out: they would be further copies of the same call.
DuplicateResumes ==
    /\ dups # <<>>
    /\ Len(passes) < MaxPasses
    /\ dups' = <<>>
    /\ cfg' = Duplicated(cfg, dups[1])
    /\ \E n \in {IF Started(dups[1]) < MaxPasses - Len(passes)
                 THEN Started(dups[1]) ELSE MaxPasses - Len(passes)} :
           /\ passes' = passes \o Entered(n, cfg')
           /\ latestTrigger' = IF n > 0 THEN TriggerRead ELSE latestTrigger
    /\ log' = <<>>
    /\ UNCHANGED <<templates, tplDevices, tplSensors, result, variant, killed, initTimer,
                   sleeping, reported, overlays, schema, listenersMap, refreshInterval,
                   leaked, ticks, lastFace, template, srcIfaces, changes>>

InitDuplicate ==
    /\ variant \in Variants
    /\ killed = FALSE
    /\ initTimer = TRUE
    /\ sleeping = FALSE
    /\ reported = OverlayIds
    /\ overlays = {}
    /\ cfg = [o \in OverlayIds |-> CfgOf(IF o = "o1" THEN "Device" ELSE "Text")]
    /\ schema = EmptySchema
    /\ passes = <<>>
    /\ listenersMap = [o \in OverlayIds |-> NoEntry]
    /\ refreshInterval = "none"
    /\ leaked = <<>>
    /\ ticks = <<>>
    /\ lastFace = ""
    /\ template = "T:{d1.x}"
    /\ srcIfaces = {"Thermometer"}
    /\ changes = 0
    /\ latestTrigger = [read |-> FALSE, ids |-> {}]
    /\ log = <<>>
    /\ templates = TemplateIds
    /\ dups = <<>>
    /\ tplDevices = TemplateDevices
    /\ tplSensors = <<SensorId>>
    /\ result = NoResult

NextDuplicate ==
    \/ Next
    \/ \E from \in SourceSettings, samePlugin \in BOOLEAN : DuplicateRequested(from, samePlugin)
    \/ DuplicateResumes

SpecDuplicate == InitDuplicate /\ [][NextDuplicate]_vars

-----------------------------------------------------------------------------
(* C29 *)

\* the settings the claim lists are the same in c and s
Mirrors(c, s) ==
    /\ c.type = s.type
    /\ c.device = s.device
    /\ c.regex = s.regex
    /\ c.maxDecimals = s.maxDecimals
    /\ c.sensorName = s.sensorName
    /\ c.unit = s.unit
    /\ c.template = s.template
    /\ c.text = s.text

\* C29, as stated: when duplicateFromDevice has copied, every eligible
\* overlay's settings (kind, source device, format expression, decimals,
\* sensor, unit, template, text) equal the source's, and a pass over the
\* copied settings is under way that rebuilds the subscriptions from them.
\* The first revision copies kind, device, format expression and decimals
\* only, and starts no pass of its own.
C29_Mirror ==
    [][(dups # <<>> /\ dups' = <<>>) =>
          \A o \in Eligible(dups[1]) :
              /\ Mirrors(cfg'[o], dups[1].from[o])
              /\ Len(passes') > Len(passes)]_vars

-----------------------------------------------------------------------------
(* C30 *)

\* overlay o is a Face Detection overlay the last pass has set up, on an awake
\* camera with no pass in flight
FaceActive(o) ==
    /\ ~killed
    /\ ~sleeping
    /\ ~initTimer
    /\ passes = <<>>
    /\ o \in overlays
    /\ o \in DOMAIN schema
    /\ schema[o] = "FaceDetection"
    /\ getOverlay(o).type = "FaceDetection"

\* C30, as stated: a detection event of the camera that carries a face label
\* reaches every Face Detection overlay, is rendered there and is stored as
\* lastFace.  Only the listeners revision receives the event: the first
\* revision listens on "ObjectDetection", an interface the camera does not
\* emit on, and the polling revision registers no listener at all and renders
\* lastFace || '-' on every tick, which nothing but that render ever stores.
C30_LastFace ==
    [][\A o \in OverlayIds :
          FaceActive(o) =>
              /\ \E r \in Listening(CameraId, "ObjectDetector") : r.o = o
              /\ DeviceEvent(CameraId, "ObjectDetector", 1) =>
                    /\ lastFace' = "Bob"
                    /\ \E k \in DOMAIN log' :
                          log'[k].o = o /\ log'[k].out = "set" /\ log'[k].text = "Bob "]_vars

(***************************************************************************)
(* C31: no leak.  In every reachable state each live event registration   *)
(* and each live timer created by start() is the one recorded under its   *)
(* overlay id in listenersMap, or is the single refresh timer recorded in *)
(* refreshInterval, so removeListeners reaches all of them; no handle is  *)
(* live and unreferenced because a later start() stored over it.          *)
(***************************************************************************)
C31_NoLeak ==
    /\ leaked = <<>>
    /\ \A r \in Live :
          \/ /\ r.o \in OverlayIds
             /\ listenersMap[r.o].live
             /\ r = Reg(r.o, listenersMap[r.o])
          \/ /\ r.o = None
             /\ refreshInterval = "live"

\* a later pass has torn down and re-created the handles of a running device
C31_Witness ==
    /\ changes > 0
    /\ passes = <<>>
    /\ ~killed
    /\ Live # {}
    /\ log # <<>>

(***************************************************************************)
(* C32: no stale-kind render.  Every sink write made by an event callback *)
(* of an overlay is made by the registration that the overlay's settings, *)
(* as stored at the time of the write, call for (same listener kind, same *)
(* source device and interface): after a settings write has changed the   *)
(* overlay's kind or source, no callback registered under the previous    *)
(* settings writes, also while the pass started by that write is awaiting.*)
(***************************************************************************)
C32_NoStaleRender ==
    \A k \in DOMAIN log :
        (log[k].path = "event" /\ log[k].out \in {"set", "clear"})
            => /\ log[k].lt = Resolve(getOverlay(log[k].o)).listenerType
               /\ listenersMap[log[k].o] = WantedEntry(log[k].o)

(***************************************************************************)
(* C33: release before init.  Once release() has run while the delayed    *)
(* init timer of the constructor is still pending, no step starts a       *)
(* reconciliation pass or a render and none creates a registration or a   *)
(* timer: the timer's callback finds killed set and does not call init(). *)
(* The second disjunct carries the same over the steps after the timer    *)
(* has fired.                                                              *)
(***************************************************************************)
Quiet == passes = <<>> /\ ticks = <<>> /\ Live = {} /\ schema = EmptySchema

-----------------------------------------------------------------------------
(* The read of the overlay slots can fail: getVideoTextOverlays rejects and
   the catch of getOverlayData swallows the error *)

\* getOverlayData resumes with a rejection: the assignment of this.overlays
\* and the currentText loop are skipped; refreshSettings goes on to
\* getOverlaySettings with the list it had and suspends at
\* convertSettingsToStorageSettings
OverlaysFails(i) ==
    /\ i \in DOMAIN passes
    /\ passes[i].pc = "overlays"
    /\ passes' = [passes EXCEPT ![i] =
                    Pass("convert", {}, getOverlaySettings(overlays, cfg), passes[i].init)]
    /\ log' = <<>>
    /\ UNCHANGED <<templates, dups, tplDevices, tplSensors, result, variant, killed, initTimer, sleeping, reported, overlays, cfg, schema,
                   listenersMap, refreshInterval, leaked, ticks, lastFace, template,
                   srcIfaces, changes, latestTrigger>>

NextFail ==
    \/ Next
    \/ \E i \in 1..MaxPasses : OverlaysFails(i)

SpecFail == Init /\ [][NextFail]_vars

(***************************************************************************)
(* C34: a pass started while the camera sleeps does not ask the camera,   *)
(* and a pass whose read of the slots fails is resumed by the catch; both *)
(* leave this.overlays as it was and go on, with that list, to the        *)
(* settings conversion.  this.overlays changes only when a read succeeds  *)
(* (so it is empty until then), and every pass that completes tears down  *)
(* and leaves exactly the registrations and timers the list calls for.    *)
(***************************************************************************)
C34_KeepsList ==
    [][/\ (Len(passes') > Len(passes) /\ sleeping) =>
              /\ overlays' = overlays
              /\ passes'[Len(passes')].pc = "convert"
              /\ passes'[Len(passes')].built = getOverlaySettings(overlays, cfg')
       /\ \A i \in DOMAIN passes :
              OverlaysFails(i) =>
                  /\ overlays' = overlays
                  /\ passes'[i].pc = "convert"
                  /\ passes'[i].built = getOverlaySettings(overlays, cfg)
       /\ overlays' # overlays =>
              \E i \in DOMAIN passes :
                  passes[i].pc = "overlays" /\ overlays' = passes[i].resp
       /\ PassCompletes =>
              /\ overlays' = overlays
              /\ Live' = Wanted']_vars

\* the only pass of an awake camera that reports slots has completed and the
\* list is still empty: its read failed, and it went on to its end
C34_Witness ==
    /\ ~initTimer
    /\ ~killed
    /\ changes = 0
    /\ passes = <<>>
    /\ latestTrigger.read
    /\ latestTrigger.ids # {}
    /\ overlays = {}
    /\ schema = EmptySchema
    /\ variant = "polling" => refreshInterval = "live"

-----------------------------------------------------------------------------
(***************************************************************************)
(* C35: truncation bound.  For every text and every positive              *)
(* maxCharacters, 1 and 2 included, the text limitText hands to the sink  *)
(* is at most maxCharacters long.                                         *)
(***************************************************************************)
C35_TruncationBound ==
    \A text \in LimitTexts, max \in MaxCharacters :
        (Limited(text, max) /\ max > 0) => Len(result.val[1]) <= max

-----------------------------------------------------------------------------
(* The two resolvers side by side: every capability set of a source device
   without the Sensors interface, in the revisions that have templates *)

\* applyDeviceTemplate, the device without the Sensors interface: the branch
\* of the chain that reads the device, named as the overlay resolver names it
TemplateFamily(device) ==
    LET ifs == Interfaces(device)
    IN  IF "Thermometer" \in ifs THEN "Temperature"
        ELSE IF "HumiditySensor" \in ifs THEN "Humidity"
        ELSE IF "EntrySensor" \in ifs THEN "Entry"
        ELSE IF "Lock" \in ifs THEN "Lock"
        ELSE IF "BinarySensor" \in ifs THEN "Binary"
        ELSE None

InitAgree ==
    /\ variant \in {"listeners", "polling"}
    /\ srcIfaces \in SUBSET (Capabilities \ {"Sensors"})
    /\ \E name \in SensorNames :
          cfg = [o \in OverlayIds |-> OverlayCfg("Device", "hi", SourceDevice, "t1", name)]
    /\ killed = FALSE
    /\ initTimer = TRUE
    /\ sleeping = FALSE
    /\ reported = OverlayIds
    /\ overlays = {}
    /\ schema = EmptySchema
    /\ passes = <<>>
    /\ listenersMap = [o \in OverlayIds |-> NoEntry]
    /\ refreshInterval = "none"
    /\ leaked = <<>>
    /\ ticks = <<>>
    /\ lastFace = ""
    /\ template = ""
    /\ changes = 0
    /\ latestTrigger = [read |-> FALSE, ids |-> {}]
    /\ log = <<>>
    /\ templates = TemplateIds
    /\ dups = <<>>
    /\ tplDevices = TemplateDevices
    /\ tplSensors = <<SensorId>>
    /\ result = NoResult

\* the overlay resolver run for overlay "o1" and the template resolver run
\* for the same source device
ApplyAgree ==
    /\ result.kind = "none"
    /\ result' = [NoResult EXCEPT !.kind = "agree",
                                  !.plan = Resolve(getOverlay("o1")),
                                  !.arg = <<srcIfaces>>,
                                  !.val = <<TemplateFamily(getOverlay("o1").device)>>]
    /\ UNCHANGED <<variant, killed, initTimer, sleeping, reported, overlays, cfg, schema,
                   passes, listenersMap, refreshInterval, leaked, ticks, lastFace, template,
                   srcIfaces, changes, latestTrigger, log, templates, dups,
                   tplDevices, tplSensors>>

NextAgree == ApplyAgree

SpecAgree == InitAgree /\ [][NextAgree]_vars

(***************************************************************************)
(* C36: resolver agreement.  For every capability set of a source device  *)
(* without the Sensors interface, a device with several capabilities      *)
(* included, the template resolver reads the device as the same           *)
(* measurement family (temperature, humidity, lock, entry, binary, or     *)
(* none) as the overlay resolver chooses for a Device overlay bound to it.*)
(***************************************************************************)
C36_ResolversAgree ==
    result.kind = "agree" => result.val = <<result.plan.listenerType>>

-----------------------------------------------------------------------------
(***************************************************************************)
(* C37: Face event without a face.  The delivery of a detection event     *)
(* that carries no labelled face issues no sink write (no set-text and no *)
(* clear) for the overlays listening to it and leaves the stored lastFace *)
(* and the stored settings, currentText included, as they were.           *)
(***************************************************************************)
C37_NoFace ==
    [][\A code \in Readings :
          (/\ DeviceEvent(CameraId, "ObjectDetector", code)
           /\ ~Carries("ObjectDetector", code)) =>
              /\ lastFace' = lastFace
              /\ cfg' = cfg
              /\ \A k \in DOMAIN log' : log'[k].out \notin {"set", "clear"}]_vars

\* an awake camera's Face listener was handed a detection without a label
\* after "Bob" had been stored: nothing was written and "Bob" is still stored
C37_Witness ==
    /\ variant = "listeners"
    /\ ~sleeping
    /\ lastFace = "Bob"
    /\ \E k \in DOMAIN log :
          /\ log[k].path = "event"
          /\ log[k].lt = "Face"
          /\ log[k].out = "none"

====
